---- MODULE Spec2Model ----
(***************************************************************************)
(* A model of the operation-history store actions of the capture tool     *)
(* (src/src/gui/store/operationHistory/actions.ts) and of the repository   *)
(* dispatcher they call (RepositoryServiceDispatcher, in                   *)
(* src/src/gui/lib/eventDispatcher/repositoryService/                      *)
(* TestTargetRepository.ts).                                               *)
(*                                                                         *)
(* The module holds several specifications over one set of variables.     *)
(* Each specification moves one group of variables and leaves the others   *)
(* as Init set them:                                                       *)
(*   SpecNotes      bugs and notices of test steps: add, edit, move        *)
(*   SpecIntention  the intention of test steps: add, move                 *)
(*   SpecGenerate   generateTestScripts                                    *)
(*   SpecImage      registerOperation, image compression, resume, reset    *)
(*   SpecRecord     recordBug / recordNotice and their image compression   *)
(*   SpecReaddress  the same, with several notes to a step                 *)
(*   SpecWindows    updateScreenHistory on every history                   *)
(*   SpecScreen     the history mutations and the screen history           *)
(***************************************************************************)
EXTENDS Integers, Sequences, FiniteSets, TLC

(***************************************************************************)
(* Bounds of the model.                                                    *)
(***************************************************************************)
\* Number of test steps of the test result (sequence numbers 1..NSteps).
NSteps == 2
\* Number of notes the backend is asked to create in one run.
MaxNotes == 3
\* Number of test results the backend is asked to create in one run.
MaxResults == 2
\* Number of operations registered in one run, over all test results.
MaxOps == 2
\* Length of the histories updateScreenHistory is applied to.
MaxHistory == 3
\* Number of notes recorded in one run next to the screen history; of notes
\* and of operations in one run next to their compressions.
MaxEdited == 1
\* Number of notes recorded in one run, several to a step.
MaxRecorded == 2
\* Number of sources of one generateTestScripts payload.
MaxSources == 2
\* Number of operations in the history of one source.
MaxSourceOps == 2
\* updateScreenHistory runs in flight at a time
MaxBuilds == 1
\* Number of input value tables built by clicks in one run.
MaxClicks == 2

(***************************************************************************)
(* Values.                                                                 *)
(***************************************************************************)
\* JavaScript's undefined / null in the place of a note id: what
\* fromBugs[from.index] gives outside the list, and the intention of a step
\* that has none.  Note ids assigned by the backend are 1, 2, ...
Undefined == 0

Sequences1 == 1 .. NSteps
NoteIds == 1 .. MaxNotes
Kinds == {"bug", "notice"}
\* Indexes a caller may pass: 0-based positions.
Indexes == 0 .. (MaxNotes - 1)

VARIABLES
    steps,      \* backend: test step sequence -> [bugs, notices, intention]
    noteStore,  \* backend: ids of the notes that exist
    nextId,     \* backend: the id the next POST /notes assigns
    pc,         \* position of the repository call in flight ("idle": none)
    op,         \* the call in flight: its arguments and its local variables
    reply,      \* the Reply the call returned
    pre,        \* the test steps as they were when the call started
    genPc,      \* generateTestScripts: "idle", "generating", "returned", "thrown"
    genPayload, \* generateTestScripts: the payload of the dispatch
    genResult,  \* generateTestScripts: the URL returned or the Error thrown
    imageCompression,  \* store: config.imageCompression.isEnabled
    testResultInfo,    \* store: id of the current test result (0: "")
    history,           \* store: the operations with their notes
    canUpdateModels,   \* store: the models may be rebuilt from the history
    screenHistory,     \* store: the screen history built by a rebuild
    windowHandles,     \* the window list the last rebuild gave the diagrams
    screenHistoryIsUpdating,  \* store: a rebuild is running
    updating,          \* updateScreenHistory in flight: "none", "resume", "view"
    resultCount,       \* backend: number of test results created
    beOps,             \* backend: test result -> its operations
    noteImages,        \* backend: note id -> its screenshot
    registering,       \* registerOperation calls awaiting their reply
    timers,            \* compressions: timer set, or request in flight
    rejected,          \* the store actions that have rejected
    coverageSources,   \* store: the coverage sources, one per screen
    models,            \* store: the diagrams and the element coverages
    builds,            \* updateScreenHistory runs awaiting their conversions
    calls,             \* save actions whose repository call is in flight
    access,            \* a repository method: its request, response, result
    selection,         \* store: what is selected, displayed, and the input
                       \* value table
    clicked,           \* the last click on a diagram and what it was made on
    urls,              \* the service URL and an image URL on its way from the
                       \* backend into a generated script
    inputElementInfos, \* store: the input element infos registered
    isResuming,        \* store (captureControl): a resume is running
    projects           \* backend: the projects, and the readProject call in flight

noteVars == <<steps, noteStore, nextId, pc, op, reply, pre>>

genVars == <<genPc, genPayload, genResult>>

storeVars ==
    <<imageCompression, testResultInfo, history, canUpdateModels,
      screenHistory, windowHandles, screenHistoryIsUpdating, updating,
      resultCount, beOps, noteImages, registering, timers, rejected>>

buildVars == <<coverageSources, models, builds>>

\* What the actions of the store's data never touch.
otherVars ==
    <<access, selection, clicked, urls, projects, inputElementInfos, isResuming>>

modelVars == <<buildVars, calls, otherVars>>

vars == <<noteVars, genVars, storeVars, modelVars>>

(***************************************************************************)
(* JavaScript array helpers, 0-based as in the source.                     *)
(***************************************************************************)
\* list[index], undefined outside the list.
At(list, index) ==
    IF index + 1 \in DOMAIN list THEN list[index + 1] ELSE Undefined

RECURSIVE FilterOutFrom(_, _, _)
FilterOutFrom(list, index, i) ==
    IF i > Len(list) THEN <<>>
    ELSE IF i - 1 = index THEN FilterOutFrom(list, index, i + 1)
    ELSE <<list[i]>> \o FilterOutFrom(list, index, i + 1)

\* list.filter((_, i) => i !== index)
FilterOut(list, index) == FilterOutFrom(list, index, 1)

\* The bugs or the notices of a test step.
Field(step, kind) == IF kind = "bug" THEN step.bugs ELSE step.notices

\* The test steps after PATCH /test-steps/<sequence> {bugs|notices: list}.
Patched(sequence, kind, list) ==
    [steps EXCEPT ![sequence] =
        IF kind = "bug" THEN [@ EXCEPT !.bugs = list]
        ELSE [@ EXCEPT !.notices = list]]

NoOp ==
    [name |-> "none", entry |-> "none", kind |-> "bug", sequence |-> 1,
     index |-> 0, dest |-> 1, noteId |-> Undefined,
     fromList |-> <<>>, destList |-> <<>>]

NoReply == [succeeded |-> FALSE, sequence |-> 0, index |-> 0]

NotesInit ==
    /\ steps = [s \in Sequences1 |->
                  [bugs |-> <<>>, notices |-> <<>>, intention |-> Undefined]]
    /\ noteStore = {}
    /\ nextId = 1
    /\ pc = "idle"
    /\ op = NoOp
    /\ reply = NoReply
    /\ pre = steps

NoPayload == [sources |-> <<>>, byProject |-> FALSE, wantOptimize |-> TRUE]

NoResult == [url |-> "", error |-> ""]

GenerateInit ==
    /\ genPc = "idle"
    /\ genPayload = NoPayload
    /\ genResult = NoResult

TestResults == 1 .. MaxResults

WindowHandles == {"w1", "w2", "w3"}

ScreenDefs == {"Login", "Home"}

\* An image URL: whose screenshot it is (<<test result, sequence>> of a test
\* step, <<0, note id>> of a note, <<>> for the empty URL), whether it is
\* the compressed file, and whether it is resolved against the service URL.
NoImage == [owner |-> <<>>, compressed |-> FALSE, absolute |-> FALSE]

\* A Note of the store.  ref is not a field of the store's Note: it records
\* from which note of the backend the Note was built.
NoNote ==
    [id |-> Undefined, ref |-> Undefined, sequence |-> 0, image |-> NoImage]

\* clearModels: no sequence diagram, no screen transition diagram, no
\* element coverages.  The sequence diagram is <<>> (null) or <<graph>>; the
\* screen transition diagrams are the entries of the object
\* windowHandleToScreenTransitionDiagramGraph in the order of their keys.
NoModels ==
    [ sequenceDiagramGraph |-> <<>>,
      screenTransitionDiagramGraphs |-> <<>>,
      elementCoverages |-> <<>> ]

BuildIds == 1 .. (MaxBuilds + 1)

\* An updateScreenHistory run that is not in flight.
NoBuild ==
    [stage |-> "idle", windowHandles |-> <<>>, payload |-> <<>>,
     conversions |-> <<>>]

\* The coverage source the reply of registerOperation carries for the test
\* step saved at the given sequence number.
CoverageSourceOf(saved, s) ==
    [screenDef |-> saved.screenDef, screenElements |-> {s}]

\* registerCoverageSource: the source of a screen met before takes up the
\* new elements, the source of a new screen is pushed.
RegisterCoverageSource(sources, source) ==
    IF \E i \in DOMAIN sources : sources[i].screenDef = source.screenDef
    THEN [i \in DOMAIN sources |->
             IF sources[i].screenDef = source.screenDef
             THEN [sources[i] EXCEPT
                      !.screenElements = @ \cup source.screenElements]
             ELSE sources[i]]
    ELSE Append(sources, source)

\* The input elements of a screen: the login screen has one, the home
\* screen none.
InputElements(screenDef) == IF screenDef = "Login" THEN <<"user">> ELSE <<>>

\* The input element info the reply of registerOperation carries for the
\* test step saved at the given sequence number.
InputElementInfoOf(saved, s) ==
    [sequence |-> s, inputElements |-> InputElements(saved.screenDef)]

\* A slip in registerOperation: every input element info is registered.
RegistersInputElementInfo_Always(inputElementInfo) == TRUE

\* registerOperation commits registerInputElementInfo for an info with at
\* least one input element.
RegistersInputElementInfo(inputElementInfo) ==
    Len(inputElementInfo.inputElements) # 0

\* registerInputElementInfo: the info is pushed.
RegisterInputElementInfo(infos, inputElementInfo) ==
    Append(infos, inputElementInfo)

\* The input element infos the backend keeps for a test result after its
\* first n test steps.
RECURSIVE InputElementInfosOf(_, _)
InputElementInfosOf(ops, n) ==
    IF n = 0 THEN <<>>
    ELSE LET earlier == InputElementInfosOf(ops, n - 1)
             info == InputElementInfoOf(ops[n], n)
         IN  IF RegistersInputElementInfo(info)
             THEN RegisterInputElementInfo(earlier, info) ELSE earlier

\* Resumed data without coverage sources.
CoverageSourcesOf_Empty(ops, n) == <<>>

\* The coverage sources the backend keeps for a test result after its first
\* n test steps.
RECURSIVE CoverageSourcesOf(_, _)
CoverageSourcesOf(ops, n) ==
    IF n = 0 THEN <<>>
    ELSE RegisterCoverageSource(CoverageSourcesOf(ops, n - 1),
                                CoverageSourceOf(ops[n], n))

\* The methods of the repositories, with the status each one takes for
\* success.
Methods ==
    {[repository |-> "TestTargetRepository", name |-> n, success |-> 200] :
        n \in {"getTestTarget", "postTestTarget", "patchTestTarget"}}
    \cup {[repository |-> "TestTargetRepository",
           name |-> "deleteTestTarget", success |-> 204]}
    \cup {[repository |-> "ProjectRepository", name |-> n, success |-> 200] :
             n \in {"postProjectForExport", "getProjects", "getProject",
                    "postProject", "putProject"}}
    \cup {[repository |-> "RepositoryServiceDispatcher",
           name |-> "getSettings", success |-> 200]}

\* What the REST client gives back: the request fails on transport (status
\* 0), or it is answered with a status.
Responses ==
    {[transport |-> "failed", status |-> 0]}
    \cup {[transport |-> "answered", status |-> n] :
             n \in {200, 204, 400, 404, 500}}

\* The backend without a project and no readProject called yet.  before,
\* again and read are kept for the properties: the projects as they were
\* when the call started, whether a call with the same id has succeeded
\* before, and the ids of the calls that have succeeded.
NoProjects ==
    [ backend |-> {},
      pc |-> "idle",
      projectId |-> 0,
      targetProjectId |-> 0,
      reply |-> [succeeded |-> FALSE, data |-> 0],
      before |-> {},
      again |-> FALSE,
      read |-> {} ]

NoAccess ==
    [ phase |-> "idle",
      method |-> [repository |-> "", name |-> "", success |-> 0],
      response |-> [transport |-> "", status |-> 0],
      result |-> [succeeded |-> FALSE, error |-> "", status |-> 0] ]

\* The store before anything is selected.  The input value tables built
\* so far are kept in tables, in the order of their creation;
\* inputValueTable is the position of the table the store holds, 0 for the
\* empty table of a store that holds no built one.
NoSelection ==
    [ selectedOperationSequence |-> 0,
      selectedScreenDef |-> "",
      selectedScreenTransition |-> <<>>,
      displayedOperations |-> <<>>,
      inputValueTable |-> 0,
      tables |-> <<>> ]

\* Mutation clearInputValueTable: the store holds an empty table.
ClearInputValueTable(selected) == [selected EXCEPT !.inputValueTable = 0]

\* No click yet.  A click names its diagram ("sequence", "transition"), the
\* element clicked ("edge", "rect", "note"), the operations of the edge, the
\* sequence number of the rectangle or note, the type of the note and the
\* screens of the edge.
NoClick ==
    [ diagram |-> "", on |-> "", operationHistory |-> <<>>, sequence |-> 0,
      type |-> "", source |-> "", target |-> "" ]

\* A URL is the sequence of its parts.  The service URL the dispatcher
\* starts with: private _serviceUrl = "http://127.0.0.1:3002".
Origin == "http://127.0.0.1:3002"

\* No image URL on its way.
NoUrls ==
    [ phase |-> "idle", serviceUrl |-> <<Origin>>, imageFileUrl |-> <<>>,
      stored |-> <<>>, resolved |-> <<>> ]

ModelsInit ==
    /\ coverageSources = <<>>
    /\ models = NoModels
    /\ builds = [i \in BuildIds |-> NoBuild]
    /\ calls = {}
    /\ access = NoAccess
    /\ selection = NoSelection
    /\ clicked = NoClick
    /\ urls = NoUrls
    /\ inputElementInfos = <<>>
    /\ isResuming = FALSE
    /\ projects = NoProjects

\* The store with the given number of test results created, the last one
\* being current, and no operation registered yet.
StoreInit(compression, results) ==
    /\ imageCompression = compression
    /\ testResultInfo = results
    /\ history = <<>>
    /\ canUpdateModels = FALSE
    /\ screenHistory = <<>>
    /\ windowHandles = <<>>
    /\ screenHistoryIsUpdating = FALSE
    /\ updating = "none"
    /\ resultCount = results
    /\ beOps = [t \in TestResults |-> <<>>]
    /\ noteImages = [id \in NoteIds |-> "none"]
    /\ registering = {}
    /\ timers = {}
    /\ rejected = {}
    /\ ModelsInit

Init == NotesInit /\ GenerateInit /\ StoreInit(FALSE, 0)

\* The same with image compression enabled in the settings.
InitCompressing == NotesInit /\ GenerateInit /\ StoreInit(TRUE, 0)

\* The same once createTestResult has run.
InitRecording == NotesInit /\ GenerateInit /\ StoreInit(TRUE, 1)

\* What the actions of one specification leave alone.
NotesFrame == UNCHANGED <<genVars, storeVars, modelVars>>
GenerateFrame == UNCHANGED <<noteVars, storeVars, modelVars>>
StoreFrame == UNCHANGED <<noteVars, genVars, otherVars, calls, modelVars>>

(***************************************************************************)
(* SpecNotes: bugs and notices.                                            *)
(*                                                                         *)
(* One repository call is in flight at a time (the store actions are       *)
(* dispatched one after the other).  Every HTTP request of a call is one    *)
(* step; RequestFails is the request throwing, which the method's catch    *)
(* turns into a failure Reply.  kind selects the bug or the notice variant *)
(* of a method: the two differ in the field name only.                     *)
(***************************************************************************)
RequestPcs ==
    {"add_post", "add_get", "add_patch", "edit_get", "edit_put",
     "move_get_from", "move_patch_from", "move_get_dest", "move_patch_dest",
     "move_get_note"}

IntentionRequestPcs ==
    {"int_post", "int_patch", "imove_get_from", "imove_patch_from",
     "imove_patch_dest", "imove_get_note"}

\* The model dispatches moveBug / moveNotice on its own for a note of the
\* list: from.index is a position of the source step's list.
IndexInList(kind, sequence, index) ==
    index < Len(Field(steps[sequence], kind))

\* saveBug / saveNotice: is the edited note moved after it was recorded?
\* newSequence = Undefined stands for null.  saveNotice also asks that the
\* sequence changes; saveBug does not.
ShouldMove(kind, oldSequence, newSequence) ==
    /\ newSequence # Undefined
    /\ (kind = "notice" => oldSequence # newSequence)

\* moveBug / moveNotice: the list PATCHed to the source step.
RemainingFromList(fromList, index) == FilterOut(fromList, index)

\* A slip in the destination list: the moved note put first, not last.
MovedDestList_Prepended(destList, fromList, index) ==
    <<At(fromList, index)>> \o destList

\* moveBug / moveNotice: the list PATCHed to the destination step.
MovedDestList(destList, fromList, index) ==
    Append(destList, At(fromList, index))

\* A slip in the returned index: the first position of the list.
MovedIndex_First(destList) == 0

\* moveBug / moveNotice: the index the call returns.
MovedIndex(destList) == Len(destList)

\* addBug / addNotice: the list PATCHed to the step.
AddedList(list, noteId) == Append(list, noteId)

\* A slip in the returned index: the length of the saved list.
AddedIndex_Length(savedList) == Len(savedList)

\* addBug / addNotice: the index the call returns, from the PATCH's reply.
AddedIndex(savedList) == Len(savedList) - 1

\* saveBug / saveNotice with oldIndex null: recordBug takes the add path.
SaveNewNote(kind, sequence) ==
    /\ pc = "idle"
    /\ nextId <= MaxNotes
    /\ op' = [NoOp EXCEPT !.name = "addNote", !.entry = "save",
                          !.kind = kind, !.sequence = sequence]
    /\ pc' = "add_post"
    /\ pre' = steps
    /\ UNCHANGED <<steps, noteStore, nextId, reply>>
    /\ NotesFrame

\* addBug: POST /notes creates the note and returns it with its id.
AddPost ==
    /\ pc = "add_post"
    /\ noteStore' = noteStore \cup {nextId}
    /\ nextId' = nextId + 1
    /\ op' = [op EXCEPT !.noteId = nextId]
    /\ pc' = "add_get"
    /\ UNCHANGED <<steps, reply, pre>>
    /\ NotesFrame

\* addBug: GET /test-steps/<sequence> reads the step's list.
AddGet ==
    /\ pc = "add_get"
    /\ op' = [op EXCEPT !.destList = Field(steps[op.sequence], op.kind)]
    /\ pc' = "add_patch"
    /\ UNCHANGED <<steps, noteStore, nextId, reply, pre>>
    /\ NotesFrame

\* addBug: PATCH /test-steps/<sequence> links the note; the call returns.
AddPatch ==
    /\ pc = "add_patch"
    /\ steps' = Patched(op.sequence, op.kind, AddedList(op.destList, op.noteId))
    /\ reply' = [succeeded |-> TRUE, sequence |-> op.sequence,
                 index |-> AddedIndex(Field(steps'[op.sequence], op.kind))]
    /\ pc' = "done"
    /\ UNCHANGED <<noteStore, nextId, op, pre>>
    /\ NotesFrame

\* saveBug / saveNotice of an existing note: recordBug takes the edit path,
\* then the note is moved when ShouldMove says so.
SaveEditedNote(kind, oldSequence, oldIndex, newSequence) ==
    /\ pc = "idle"
    /\ op' = [NoOp EXCEPT !.name = "editNote", !.entry = "save",
                          !.kind = kind, !.sequence = oldSequence,
                          !.index = oldIndex, !.dest = newSequence]
    /\ pc' = "edit_get"
    /\ pre' = steps
    /\ UNCHANGED <<steps, noteStore, nextId, reply>>
    /\ NotesFrame

\* editBug: GET /test-steps/<sequence>, noteId = bugs[index].
EditGet ==
    /\ pc = "edit_get"
    /\ LET list == Field(steps[op.sequence], op.kind)
       IN op' = [op EXCEPT !.fromList = list, !.noteId = At(list, op.index)]
    /\ pc' = "edit_put"
    /\ UNCHANGED <<steps, noteStore, nextId, reply, pre>>
    /\ NotesFrame

\* editBug: PUT /notes/<noteId> (only an existing note can be updated); the
\* call returns the index it was given.  saveBug then dispatches moveBug
\* with from = (oldSequence, oldIndex) and dest = newSequence.
EditPut ==
    /\ pc = "edit_put"
    /\ op.noteId \in noteStore
    /\ reply' = [succeeded |-> TRUE, sequence |-> op.sequence,
                 index |-> op.index]
    /\ IF ShouldMove(op.kind, op.sequence, op.dest)
       THEN /\ pc' = "move_get_from"
            /\ op' = [NoOp EXCEPT !.name = "moveNote", !.entry = "move",
                                  !.kind = op.kind, !.sequence = op.sequence,
                                  !.index = op.index, !.dest = op.dest]
       ELSE /\ pc' = "done"
            /\ op' = op
    /\ UNCHANGED <<steps, noteStore, nextId, pre>>
    /\ NotesFrame

\* The store action moveBug / moveNotice dispatched on its own.
MoveNote(kind, fromSequence, fromIndex, destSequence) ==
    /\ pc = "idle"
    /\ IndexInList(kind, fromSequence, fromIndex)
    /\ op' = [NoOp EXCEPT !.name = "moveNote", !.entry = "move",
                          !.kind = kind, !.sequence = fromSequence,
                          !.index = fromIndex, !.dest = destSequence]
    /\ pc' = "move_get_from"
    /\ pre' = steps
    /\ UNCHANGED <<steps, noteStore, nextId, reply>>
    /\ NotesFrame

\* moveBug / moveNotice dispatched with a from.index that is no position of
\* the source step's list.
MoveNoteOutside(kind, fromSequence, fromIndex, destSequence) ==
    /\ pc = "idle"
    /\ ~IndexInList(kind, fromSequence, fromIndex)
    /\ op' = [NoOp EXCEPT !.name = "moveNote", !.entry = "move",
                          !.kind = kind, !.sequence = fromSequence,
                          !.index = fromIndex, !.dest = destSequence]
    /\ pc' = "move_get_from"
    /\ pre' = steps
    /\ UNCHANGED <<steps, noteStore, nextId, reply>>
    /\ NotesFrame

\* moveBug: GET the source step.
MoveGetFrom ==
    /\ pc = "move_get_from"
    /\ op' = [op EXCEPT !.fromList = Field(steps[op.sequence], op.kind)]
    /\ pc' = "move_patch_from"
    /\ UNCHANGED <<steps, noteStore, nextId, reply, pre>>
    /\ NotesFrame

\* moveBug: PATCH the source step without the entry at from.index.
MovePatchFrom ==
    /\ pc = "move_patch_from"
    /\ steps' = Patched(op.sequence, op.kind,
                        RemainingFromList(op.fromList, op.index))
    /\ pc' = "move_get_dest"
    /\ UNCHANGED <<noteStore, nextId, op, reply, pre>>
    /\ NotesFrame

\* moveBug: GET the destination step.
MoveGetDest ==
    /\ pc = "move_get_dest"
    /\ op' = [op EXCEPT !.destList = Field(steps[op.dest], op.kind)]
    /\ pc' = "move_patch_dest"
    /\ UNCHANGED <<steps, noteStore, nextId, reply, pre>>
    /\ NotesFrame

\* moveBug: PATCH the destination step with fromBugs[from.index] appended.
MovePatchDest ==
    /\ pc = "move_patch_dest"
    /\ steps' = Patched(op.dest, op.kind,
                        MovedDestList(op.destList, op.fromList, op.index))
    /\ op' = [op EXCEPT !.noteId = At(op.fromList, op.index)]
    /\ pc' = "move_get_note"
    /\ UNCHANGED <<noteStore, nextId, reply, pre>>
    /\ NotesFrame

\* moveBug: GET /notes/<id> (only an existing note can be read); the call
\* returns the note with the destination sequence and index.
MoveGetNote ==
    /\ pc = "move_get_note"
    /\ op.noteId \in noteStore
    /\ reply' = [succeeded |-> TRUE, sequence |-> op.dest,
                 index |-> MovedIndex(op.destList)]
    /\ pc' = "done"
    /\ UNCHANGED <<steps, noteStore, nextId, op, pre>>
    /\ NotesFrame

\* A request throws: the catch block returns { succeeded: false }.
RequestFails ==
    /\ pc \in RequestPcs \cup IntentionRequestPcs
    /\ reply' = NoReply
    /\ pc' = "failed"
    /\ UNCHANGED <<steps, noteStore, nextId, op, pre>>
    /\ NotesFrame

\* The store action has handled the reply; the next action may be dispatched.
Return ==
    /\ pc \in {"done", "failed"}
    /\ pc' = "idle"
    /\ op' = NoOp
    /\ reply' = NoReply
    /\ pre' = steps
    /\ UNCHANGED <<steps, noteStore, nextId>>
    /\ NotesFrame

NotesNext ==
    \/ \E kind \in Kinds, sequence \in Sequences1 : SaveNewNote(kind, sequence)
    \/ AddPost
    \/ AddGet
    \/ AddPatch
    \/ \E kind \in Kinds, oldSequence \in Sequences1, oldIndex \in Indexes,
          newSequence \in Sequences1 \cup {Undefined} :
            SaveEditedNote(kind, oldSequence, oldIndex, newSequence)
    \/ EditGet
    \/ EditPut
    \/ \E kind \in Kinds, fromSequence \in Sequences1, fromIndex \in Indexes,
          destSequence \in Sequences1 :
            MoveNote(kind, fromSequence, fromIndex, destSequence)
    \/ MoveGetFrom
    \/ MovePatchFrom
    \/ MoveGetDest
    \/ MovePatchDest
    \/ MoveGetNote
    \/ RequestFails
    \/ Return

SpecNotes == Init /\ [][NotesNext]_vars

\* Notes are added, and one move is dispatched with an index outside the
\* list; GET /notes/undefined finds no note.
BoundsNext ==
    \/ \E kind \in Kinds, sequence \in Sequences1 : SaveNewNote(kind, sequence)
    \/ AddPost
    \/ AddGet
    \/ AddPatch
    \/ MoveGetFrom
    \/ MovePatchFrom
    \/ MoveGetDest
    \/ MovePatchDest
    \/ RequestFails
    \/ Return
    \/ \E kind \in Kinds, fromSequence \in Sequences1, fromIndex \in Indexes,
          destSequence \in Sequences1 :
            /\ \A s \in Sequences1, k \in Kinds :
                   \A i \in DOMAIN Field(steps[s], k) :
                       Field(steps[s], k)[i] # Undefined
            /\ MoveNoteOutside(kind, fromSequence, fromIndex, destSequence)

SpecBounds == Init /\ [][BoundsNext]_vars

(***************************************************************************)
(* SpecIntention: the intention of a test step.                            *)
(*                                                                         *)
(* The store action saveIntention reaches the dispatcher's addIntention    *)
(* and moveIntention through RecordIntentionAction and MoveIntentionAction.*)
(* The model adds an intention to a step that has none and moves the       *)
(* intention of a step that has one.                                       *)
(***************************************************************************)
\* The test steps after PATCH /test-steps/<sequence> {intention: noteId}.
PatchedIntention(sequence, noteId) ==
    [steps EXCEPT ![sequence] = [@ EXCEPT !.intention = noteId]]

\* moveIntention: the value PATCHed to the source step (null).
SourceIntentionAfterMove == Undefined

AddIntention(sequence) ==
    /\ pc = "idle"
    /\ nextId <= MaxNotes
    /\ steps[sequence].intention = Undefined
    /\ op' = [NoOp EXCEPT !.name = "addIntention", !.entry = "saveIntention",
                          !.kind = "intention", !.sequence = sequence]
    /\ pc' = "int_post"
    /\ pre' = steps
    /\ UNCHANGED <<steps, noteStore, nextId, reply>>
    /\ NotesFrame

\* addIntention: POST /notes.
IntentionPost ==
    /\ pc = "int_post"
    /\ noteStore' = noteStore \cup {nextId}
    /\ nextId' = nextId + 1
    /\ op' = [op EXCEPT !.noteId = nextId]
    /\ pc' = "int_patch"
    /\ UNCHANGED <<steps, reply, pre>>
    /\ NotesFrame

\* addIntention: PATCH /test-steps/<sequence> {intention: savedNote.id}.
IntentionPatch ==
    /\ pc = "int_patch"
    /\ steps' = PatchedIntention(op.sequence, op.noteId)
    /\ reply' = [succeeded |-> TRUE, sequence |-> op.sequence, index |-> 0]
    /\ pc' = "done"
    /\ UNCHANGED <<noteStore, nextId, op, pre>>
    /\ NotesFrame

MoveIntention(fromSequence, destSequence) ==
    /\ pc = "idle"
    /\ steps[fromSequence].intention # Undefined
    /\ op' = [NoOp EXCEPT !.name = "moveIntention", !.entry = "saveIntention",
                          !.kind = "intention", !.sequence = fromSequence,
                          !.dest = destSequence]
    /\ pc' = "imove_get_from"
    /\ pre' = steps
    /\ UNCHANGED <<steps, noteStore, nextId, reply>>
    /\ NotesFrame

\* moveIntention: GET the source step, noteId = its intention.
IntentionMoveGetFrom ==
    /\ pc = "imove_get_from"
    /\ op' = [op EXCEPT !.noteId = steps[op.sequence].intention]
    /\ pc' = "imove_patch_from"
    /\ UNCHANGED <<steps, noteStore, nextId, reply, pre>>
    /\ NotesFrame

\* moveIntention: PATCH the source step {intention: null}.
IntentionMovePatchFrom ==
    /\ pc = "imove_patch_from"
    /\ steps' = PatchedIntention(op.sequence, SourceIntentionAfterMove)
    /\ pc' = "imove_patch_dest"
    /\ UNCHANGED <<noteStore, nextId, op, reply, pre>>
    /\ NotesFrame

\* moveIntention: PATCH the destination step {intention: noteId}.
IntentionMovePatchDest ==
    /\ pc = "imove_patch_dest"
    /\ steps' = PatchedIntention(op.dest, op.noteId)
    /\ pc' = "imove_get_note"
    /\ UNCHANGED <<noteStore, nextId, op, reply, pre>>
    /\ NotesFrame

\* moveIntention: GET /notes/<noteId>; the call returns the note with the
\* destination sequence.
IntentionMoveGetNote ==
    /\ pc = "imove_get_note"
    /\ op.noteId \in noteStore
    /\ reply' = [succeeded |-> TRUE, sequence |-> op.dest, index |-> 0]
    /\ pc' = "done"
    /\ UNCHANGED <<steps, noteStore, nextId, op, pre>>
    /\ NotesFrame

IntentionNext ==
    \/ \E sequence \in Sequences1 : AddIntention(sequence)
    \/ IntentionPost
    \/ IntentionPatch
    \/ \E fromSequence \in Sequences1, destSequence \in Sequences1 :
            MoveIntention(fromSequence, destSequence)
    \/ IntentionMoveGetFrom
    \/ IntentionMovePatchFrom
    \/ IntentionMovePatchDest
    \/ IntentionMoveGetNote
    \/ RequestFails
    \/ Return

SpecIntention == Init /\ [][IntentionNext]_vars


(***************************************************************************)
(* SpecGenerate: generateTestScripts.                                      *)
(*                                                                         *)
(* A payload is its sources, each a history of some number of operations,  *)
(* and the choice of a project id or a test result id.  wantOptimize is    *)
(* the generation mode the caller would like: the payload of the action    *)
(* has no field for it and the action never reads it.                      *)
(***************************************************************************)
\* const optimize = true
optimize_Off == FALSE

optimize == TRUE

SourceSets ==
    UNION {[1 .. n -> 0 .. MaxSourceOps] : n \in 0 .. MaxSources}

RECURSIVE TotalOperations(_)
TotalOperations(sources) ==
    IF sources = <<>> THEN 0
    ELSE Head(sources) + TotalOperations(Tail(sources))

\* GenerateTestScriptsAction.generate throws generate_test_suite_failed when
\* the generator yields no test suite: there is no operation to generate from.
GenerationIsEmpty(sources) == TotalOperations(sources) = 0

\* A catch block that swallows the error: no Error is thrown.
ErrorCode_Swallowed(message) == ""

\* The catch block of generateTestScripts: the message key of the Error it
\* throws for a caught error message.
ErrorCode(message) ==
    IF message = "generate_test_suite_failed"
    THEN IF optimize
         THEN "save_test_scripts_no_section_error"
         ELSE "save_test_scripts_no_operation_error"
    ELSE message

GenerateTestScripts(sources, byProject, wantOptimize) ==
    /\ genPc = "idle"
    /\ genPayload' = [sources |-> sources, byProject |-> byProject,
                      wantOptimize |-> wantOptimize]
    /\ genPc' = "generating"
    /\ genResult' = NoResult
    /\ GenerateFrame

\* generate(...) throws generate_test_suite_failed; the catch block rethrows.
GenerateFailsEmpty ==
    /\ genPc = "generating"
    /\ GenerationIsEmpty(genPayload.sources)
    /\ genResult' = [url |-> "", error |-> ErrorCode("generate_test_suite_failed")]
    /\ genPc' = "thrown"
    /\ UNCHANGED genPayload
    /\ GenerateFrame

\* generate(...) throws because the scripts could not be saved.
GenerateFailsSaving ==
    /\ genPc = "generating"
    /\ ~GenerationIsEmpty(genPayload.sources)
    /\ genResult' = [url |-> "", error |-> ErrorCode("save_test_scripts_failed")]
    /\ genPc' = "thrown"
    /\ UNCHANGED genPayload
    /\ GenerateFrame

\* generate(...) returns the URL of the saved scripts.
GenerateReturns ==
    /\ genPc = "generating"
    /\ ~GenerationIsEmpty(genPayload.sources)
    /\ genResult' = [url |-> IF genPayload.byProject
                             THEN "projects/test-scripts"
                             ELSE "test-results/test-scripts",
                     error |-> ""]
    /\ genPc' = "returned"
    /\ UNCHANGED genPayload
    /\ GenerateFrame

\* The caller has the result; the action may be dispatched again.
GenerateSettled ==
    /\ genPc \in {"returned", "thrown"}
    /\ genPc' = "idle"
    /\ genPayload' = NoPayload
    /\ genResult' = NoResult
    /\ GenerateFrame

GenerateNext ==
    \/ \E sources \in SourceSets, byProject \in BOOLEAN, wantOptimize \in BOOLEAN :
            GenerateTestScripts(sources, byProject, wantOptimize)
    \/ GenerateFailsEmpty
    \/ GenerateFailsSaving
    \/ GenerateReturns
    \/ GenerateSettled

SpecGenerate == Init /\ [][GenerateNext]_vars

(* ---------------------------------------------------------------------- *)
(* SpecImage: registerOperation and the compression of the screenshots    *)
(* of the operations, with the actions that replace the history.          *)
(* ---------------------------------------------------------------------- *)

\* The Operation the dispatcher builds from the backend's test step s of
\* test result t:
\* imageFilePath is the backend's imageFileUrl resolved against the service
\* URL, or the empty URL.  testResult is not a field of the store's
\* Operation: it records in which test result the backend keeps the step.
OperationOf(step, t, s) ==
    [ testResult   |-> t,
      sequence     |-> s,
      windowHandle |-> step.windowHandle,
      screenDef    |-> step.screenDef,
      imageFilePath |->
          IF step.hasImage
          THEN [owner |-> <<t, s>>, compressed |-> step.compressed,
                absolute |-> TRUE]
          ELSE NoImage ]

\* The entry registerOperation commits with addHistory.
NewEntry(operation) ==
    [operation |-> operation, intention |-> NoNote, bugs |-> <<>>,
     notices |-> <<>>]

\* A compression whose timer is set and has not fired.
StepTimer(operation) ==
    [ kind |-> "step", phase |-> "timer",
      issued |-> <<operation.testResult, operation.sequence>>,
      target |-> 0, sequence |-> operation.sequence, index |-> 0,
      noteId |-> Undefined ]

\* registerOperation sets the timer when compression is enabled and the
\* operation has a screenshot.
SchedulesStepCompression(operation) ==
    imageCompression /\ operation.imageFilePath # NoImage

\* Mutation replaceTestStepsImageFileUrl: the operation of that sequence
\* number gets the URL.
ReplaceTestStepsImageFileUrl(h, sequence, imageFileUrl) ==
    [i \in DOMAIN h |->
        IF h[i].operation.sequence = sequence
        THEN [h[i] EXCEPT !.operation.imageFilePath = imageFileUrl]
        ELSE h[i]]

\* What a failed compression leaves of the history: the callback throws
\* and commits nothing.
HistoryAfterFailedCompression_RolledBack(h, task) ==
    SelectSeq(h, LAMBDA e : e.operation.sequence # task.sequence)

HistoryAfterFailedCompression(h, task) == h

\* The URL compressTestStepImage's caller commits: the compressed file of
\* the step the request named, resolved against the service URL.
CompressedStepImage(t, s) ==
    [owner |-> <<t, s>>, compressed |-> TRUE, absolute |-> TRUE]

\* commit("setCanUpdateModels", { canUpdateModels: true })
SetCanUpdateModels_Omitted == UNCHANGED canUpdateModels

SetCanUpdateModels == canUpdateModels' = TRUE

Rejects(action) == rejected' = rejected \cup {action}

\* createTestResult: the backend creates a test result and the store takes
\* its id.
CreateTestResult ==
    /\ resultCount < MaxResults
    /\ resultCount' = resultCount + 1
    /\ testResultInfo' = resultCount + 1
    /\ UNCHANGED <<imageCompression, history, canUpdateModels, screenHistory,
                   windowHandles, screenHistoryIsUpdating, updating, beOps,
                   noteImages, registering, timers, rejected>>
    /\ StoreFrame

\* The test steps the backend holds.
RegisteredSteps ==
    {ts \in TestResults \X (1 .. MaxOps) : ts[2] \in DOMAIN beOps[ts[1]]}

\* registerOperation up to its await: the request names the test result
\* that is current now.
RegisterOperation(windowHandle, screenDef, hasImage) ==
    /\ testResultInfo # 0
    /\ registering = {}
    /\ Cardinality(RegisteredSteps) < MaxOps
    /\ registering' = {[ testResult |-> testResultInfo,
                         windowHandle |-> windowHandle,
                         screenDef |-> screenDef, hasImage |-> hasImage ]}
    /\ UNCHANGED <<imageCompression, testResultInfo, history,
                   canUpdateModels, screenHistory, windowHandles,
                   screenHistoryIsUpdating, updating, resultCount, beOps,
                   noteImages, timers, rejected>>
    /\ StoreFrame

\* The reply: the backend has appended the test step; the entry is
\* committed, the models may be rebuilt, the timer is set, and the action
\* resolves.
RegisterOperationReply ==
    \E request \in registering :
        LET t == request.testResult
            s == Len(beOps[t]) + 1
            saved == [ windowHandle |-> request.windowHandle,
                       screenDef |-> request.screenDef,
                       hasImage |-> request.hasImage,
                       compressed |-> FALSE ]
            operation == OperationOf(saved, t, s)
        IN  /\ beOps' = [beOps EXCEPT ![t] = Append(@, saved)]
            /\ history' = Append(history, NewEntry(operation))
            /\ SetCanUpdateModels
            /\ timers' = IF SchedulesStepCompression(operation)
                         THEN timers \cup {StepTimer(operation)}
                         ELSE timers
            /\ registering' = registering \ {request}
            /\ coverageSources' =
                   RegisterCoverageSource(coverageSources,
                                          CoverageSourceOf(saved, s))
            /\ inputElementInfos' =
                   IF RegistersInputElementInfo(InputElementInfoOf(saved, s))
                   THEN RegisterInputElementInfo(
                            inputElementInfos, InputElementInfoOf(saved, s))
                   ELSE inputElementInfos
            /\ UNCHANGED rejected
    /\ UNCHANGED <<imageCompression, testResultInfo, screenHistory,
                   windowHandles, screenHistoryIsUpdating, updating,
                   resultCount, noteImages>>
    /\ UNCHANGED <<noteVars, genVars, access, selection, clicked, urls, projects,
                   isResuming, calls, models, builds>>

\* The request fails: the reply carries no data, reading it throws, and
\* the action rejects with nothing committed.
RegisterOperationFails ==
    \E request \in registering :
        /\ registering' = registering \ {request}
        /\ Rejects("registerOperation")
    /\ UNCHANGED <<imageCompression, testResultInfo, history,
                   canUpdateModels, screenHistory, windowHandles,
                   screenHistoryIsUpdating, updating, resultCount, beOps,
                   noteImages, timers>>
    /\ StoreFrame

\* The timer of a test step fires: the request is sent for the test result
\* that is current at this moment and for the operation's sequence number.
StepTimerFires ==
    \E task \in timers :
        /\ task.kind = "step"
        /\ task.phase = "timer"
        /\ timers' = (timers \ {task}) \cup
                     {[task EXCEPT !.phase = "requested",
                                   !.target = testResultInfo]}
    /\ UNCHANGED <<imageCompression, testResultInfo, history,
                   canUpdateModels, screenHistory, windowHandles,
                   screenHistoryIsUpdating, updating, resultCount, beOps,
                   noteImages, registering, rejected>>
    /\ StoreFrame

\* The backend has the step and compresses its screenshot.
CanCompressStep(t, s) ==
    /\ t \in TestResults
    /\ s \in DOMAIN beOps[t]
    /\ beOps[t][s].hasImage

\* The compression succeeds: replaceTestStepsImageFileUrl is committed for
\* the sequence number.
StepCompressionSucceeds ==
    \E task \in timers :
        /\ task.kind = "step"
        /\ task.phase = "requested"
        /\ CanCompressStep(task.target, task.sequence)
        /\ beOps' = [beOps EXCEPT
                        ![task.target][task.sequence].compressed = TRUE]
        /\ history' = ReplaceTestStepsImageFileUrl(history, task.sequence,
                          CompressedStepImage(task.target, task.sequence))
        /\ timers' = timers \ {task}
    /\ UNCHANGED <<imageCompression, testResultInfo, canUpdateModels,
                   screenHistory, windowHandles, screenHistoryIsUpdating,
                   updating, resultCount, noteImages, registering, rejected>>
    /\ StoreFrame

\* The compression fails: the callback throws reply2.error in the timer,
\* outside every action.
StepCompressionFails ==
    \E task \in timers :
        /\ task.kind = "step"
        /\ task.phase = "requested"
        /\ history' = HistoryAfterFailedCompression(history, task)
        /\ timers' = timers \ {task}
    /\ UNCHANGED <<imageCompression, testResultInfo, canUpdateModels,
                   screenHistory, windowHandles, screenHistoryIsUpdating,
                   updating, resultCount, beOps, noteImages, registering,
                   rejected>>
    /\ StoreFrame

\* resetHistory: the history is emptied and no test result is current.
ResetHistory ==
    /\ history' = <<>>
    /\ testResultInfo' = 0
    /\ coverageSources' = <<>>
    /\ models' = NoModels
    /\ UNCHANGED <<imageCompression, canUpdateModels, screenHistory,
                   windowHandles, screenHistoryIsUpdating, updating,
                   resultCount, beOps, noteImages, registering, timers,
                   rejected>>
    /\ UNCHANGED <<noteVars, genVars, access, clicked, urls, projects, calls, builds>>
    /\ selection' = ClearInputValueTable(selection)
    /\ inputElementInfos' = <<>>
    /\ UNCHANGED isResuming


\* The test result whose notes the test steps of the notes model hold.
NotesResult == 1

\* A Note built without overrideParams.sequence: it keeps the sequence the
\* backend's note has, none.
NoteOf_NotOverridden(id, sequence) ==
    [ id |-> id, ref |-> id, sequence |-> 0,
      image |-> IF noteImages[id] = "none" THEN NoImage
                ELSE [owner |-> <<0, id>>,
                      compressed |-> (noteImages[id] = "compressed"),
                      absolute |-> TRUE] ]

\* The Note the dispatcher builds from the backend's note.
NoteOf(id, sequence) ==
    [ id |-> id, ref |-> id, sequence |-> sequence,
      image |-> IF noteImages[id] = "none" THEN NoImage
                ELSE [owner |-> <<0, id>>,
                      compressed |-> (noteImages[id] = "compressed"),
                      absolute |-> TRUE] ]

\* resume's operationHistoryItems: testSteps.map((testStep, index) => ...)
\* with sequence = index + 1.
ResumedEntry(t, s) ==
    LET hasNotes == t = NotesResult /\ s \in Sequences1 IN
    [ operation |-> OperationOf(beOps[t][s], t, s),
      intention |-> IF hasNotes /\ steps[s].intention # Undefined
                    THEN NoteOf(steps[s].intention, s) ELSE NoNote,
      bugs      |-> IF hasNotes
                    THEN [i \in DOMAIN steps[s].bugs |->
                             NoteOf(steps[s].bugs[i], s)]
                    ELSE <<>>,
      notices   |-> IF hasNotes
                    THEN [i \in DOMAIN steps[s].notices |->
                             NoteOf(steps[s].notices[i], s)]
                    ELSE <<>> ]

ResumedHistory(t) == [s \in DOMAIN beOps[t] |-> ResumedEntry(t, s)]

\* array.indexOf(value), 0-based, -1 when absent.
IndexOf_Last(array, value) ==
    IF \E i \in DOMAIN array : array[i] = value
    THEN (CHOOSE i \in DOMAIN array :
             /\ array[i] = value
             /\ \A k \in DOMAIN array : array[k] = value => k <= i) - 1
    ELSE -1

IndexOf(array, value) ==
    IF \E i \in DOMAIN array : array[i] = value
    THEN (CHOOSE i \in DOMAIN array :
             /\ array[i] = value
             /\ \A k \in DOMAIN array : array[k] = value => k >= i) - 1
    ELSE -1

\* array.filter((value, index, array) => array.indexOf(value) === index),
\* from position index on.
RECURSIVE FilterFirst(_, _)
FilterFirst(array, index) ==
    IF index >= Len(array) THEN <<>>
    ELSE (IF IndexOf(array, At(array, index)) = index
          THEN <<At(array, index)>> ELSE <<>>)
         \o FilterFirst(array, index + 1)

\* The window list updateScreenHistory hands to the diagrams; text k stands
\* for the label `window${k}`, k = index + 1.
WindowHandlesOf(h) ==
    LET array == [i \in DOMAIN h |-> h[i].operation.windowHandle]
        firsts == FilterFirst(array, 0)
    IN  [i \in DOMAIN firsts |->
            [text |-> (i - 1) + 1, value |-> firsts[i], available |-> FALSE]]

\* The screen the window showed before position i of the history, "" when
\* position i is the window's first operation.
SourceScreenDef(h, i) ==
    LET earlier == {k \in 1 .. (i - 1) :
                       h[k].operation.windowHandle
                           = h[i].operation.windowHandle}
    IN  IF earlier = {} THEN ""
        ELSE h[CHOOSE k \in earlier : \A m \in earlier : m <= k]
                 .operation.screenDef

\* ScreenHistory.createFromOperationHistory: one record per operation, in
\* the order of the history, with the screen its window came from.
CreateFromOperationHistory(h) ==
    [i \in DOMAIN h |->
        [ sequence |-> h[i].operation.sequence,
          windowHandle |-> h[i].operation.windowHandle,
          screenDef |-> h[i].operation.screenDef,
          sourceScreenDef |-> SourceScreenDef(h, i),
          intention |-> h[i].intention,
          bugs |-> h[i].bugs,
          notices |-> h[i].notices ]]

\* SequenceDiagramGraphConverter.convert: the lifelines are the windows of
\* the list, the messages are the records of the screen history.
SequenceDiagramGraph(sh, handles) ==
    [ windows |-> [k \in DOMAIN handles |-> handles[k].value],
      of      |-> sh ]

\* A slip in the emission: a transition record for every operation.
EmitsTransition_Always(record) == TRUE

\* A record of the screen history carries a transition record when the
\* screen its window came from (none, "", before the window's first
\* operation) is not the screen of its operation.
EmitsTransition(record) == record.sourceScreenDef # record.screenDef

\* The transition records of a screen history, in its order.
ScreenTransitions(sh) ==
    LET emitted == SelectSeq(sh, EmitsTransition)
    IN  [i \in DOMAIN emitted |->
            [ sequence |-> emitted[i].sequence,
              windowHandle |-> emitted[i].windowHandle,
              sourceScreenDef |-> emitted[i].sourceScreenDef,
              targetScreenDef |-> emitted[i].screenDef ]]

\* ScreenTransitionDiagramGraphConverter.convert: the transitions of the
\* records of one window, in the order of the screen history.
ScreenTransitionDiagramGraph(sh, windowHandle) ==
    LET own == SelectSeq(sh, LAMBDA e : e.windowHandle = windowHandle)
    IN  [ windowHandle |-> windowHandle,
          transitions |-> ScreenTransitions(own) ]

\* Coverage.getCoverages: one coverage per screen, in the order in which
\* the screens first appear, with the operations that touched the screen.
ElementCoverages(sh) ==
    LET screens == FilterFirst([i \in DOMAIN sh |-> sh[i].screenDef], 0)
    IN  [k \in DOMAIN screens |->
            [ screenDef |-> screens[k],
              operations |-> {sh[i].sequence : i \in
                                 {j \in DOMAIN sh :
                                     sh[j].screenDef = screens[k]}} ]]

\* setScreenTransitionDiagramGraph: the graph is stored under the key
\* windowHandle; a new key comes last.
SetScreenTransitionDiagramGraph(graphs, windowHandle, graph) ==
    IF \E i \in DOMAIN graphs : graphs[i].windowHandle = windowHandle
    THEN [i \in DOMAIN graphs |->
             IF graphs[i].windowHandle = windowHandle
             THEN [windowHandle |-> windowHandle, graph |-> graph]
             ELSE graphs[i]]
    ELSE Append(graphs, [windowHandle |-> windowHandle, graph |-> graph])

\* The loop of buildScreenTransitionDiagramGraph over graphAndWindowHandles,
\* from position k on: one commit per window handle, in the order of the
\* window handles.
RECURSIVE CommitGraphs(_, _, _, _)
CommitGraphs(graphs, sh, handles, k) ==
    IF k > Len(handles) THEN graphs
    ELSE CommitGraphs(
             SetScreenTransitionDiagramGraph(
                 graphs, handles[k],
                 ScreenTransitionDiagramGraph(sh, handles[k])),
             sh, handles, k + 1)

\* windowHandles.map((windowHandle) => windowHandle.value)
Values(handles) == [k \in DOMAIN handles |-> handles[k].value]

\* updateScreenHistory down to its first await: the flag is raised, the
\* screen history is built from the history and committed, the models are
\* cleared, and the window list is computed.
UpdateScreenHistoryBuilds ==
    /\ screenHistoryIsUpdating' = TRUE
    /\ screenHistory' = CreateFromOperationHistory(history)
    /\ windowHandles' = WindowHandlesOf(history)
    /\ models' = NoModels

\* resume down to its first await inside setResumedData: the resumed data
\* replace the history and the test result.
Resume(t) ==
    /\ t \in 1 .. resultCount
    /\ updating = "none"
    /\ history' = ResumedHistory(t)
    /\ testResultInfo' = t
    /\ coverageSources' = CoverageSourcesOf(beOps[t], Len(beOps[t]))
    /\ models' = NoModels
    /\ updating' = "resumed"
    /\ UNCHANGED <<imageCompression, canUpdateModels, screenHistory,
                   windowHandles, screenHistoryIsUpdating, resultCount,
                   beOps, noteImages, registering, timers, rejected>>
    /\ UNCHANGED <<noteVars, genVars, access, clicked, urls, projects, calls, builds>>
    /\ selection' = ClearInputValueTable(selection)
    /\ inputElementInfos' = InputElementInfosOf(beOps[t], Len(beOps[t]))
    /\ isResuming' = TRUE

\* resume dispatches updateScreenHistory.
ResumeUpdatesScreenHistory ==
    /\ updating = "resumed"
    /\ UpdateScreenHistoryBuilds
    /\ updating' = "resume"
    /\ UNCHANGED <<imageCompression, testResultInfo, history,
                   canUpdateModels, resultCount, beOps, noteImages,
                   registering, timers, rejected>>
    /\ UNCHANGED <<noteVars, genVars, otherVars, calls, coverageSources, builds>>

\* updateScreenHistory dispatched on its own.
UpdateScreenHistory ==
    /\ updating = "none"
    /\ UpdateScreenHistoryBuilds
    /\ updating' = "view"
    /\ UNCHANGED <<imageCompression, testResultInfo, history,
                   canUpdateModels, resultCount, beOps, noteImages,
                   registering, timers, rejected>>
    /\ UNCHANGED <<noteVars, genVars, otherVars, calls, coverageSources, builds>>

\* The diagrams and coverages are built and committed, no other rebuild
\* having run meanwhile: the finally block lowers the flag, and resume, when
\* it dispatched the rebuild, resolves.
UpdateScreenHistoryEnds ==
    /\ updating \in {"resume", "view"}
    /\ models' =
           [ sequenceDiagramGraph |->
                 <<SequenceDiagramGraph(screenHistory, windowHandles)>>,
             screenTransitionDiagramGraphs |->
                 CommitGraphs(models.screenTransitionDiagramGraphs,
                              screenHistory, Values(windowHandles), 1),
             elementCoverages |-> ElementCoverages(screenHistory) ]
    /\ screenHistoryIsUpdating' = FALSE
    /\ updating' = "none"
    /\ UNCHANGED rejected
    /\ UNCHANGED <<imageCompression, testResultInfo, history,
                   canUpdateModels, screenHistory, windowHandles,
                   resultCount, beOps, noteImages, registering, timers>>
    /\ isResuming' = IF updating = "resume" THEN FALSE ELSE isResuming
    /\ UNCHANGED <<noteVars, genVars, access, selection, clicked, urls, projects,
                   inputElementInfos, calls, coverageSources, builds>>

ImageNext ==
    \/ CreateTestResult
    \/ \E hasImage \in BOOLEAN : RegisterOperation("w1", "Login", hasImage)
    \/ RegisterOperationReply
    \/ RegisterOperationFails
    \/ StepTimerFires
    \/ StepCompressionSucceeds
    \/ StepCompressionFails
    \/ ResetHistory
    \/ \E t \in TestResults : Resume(t)
    \/ ResumeUpdatesScreenHistory
    \/ UpdateScreenHistoryEnds

SpecImage == InitCompressing /\ [][ImageNext]_vars


(***************************************************************************)
(* Helpers of the properties.                                              *)
(***************************************************************************)
Range(list) == {list[i] : i \in DOMAIN list}

\* How many times id occurs in list.
Occurrences(list, id) == Cardinality({i \in DOMAIN list : list[i] = id})

\* list without the entries equal to id, the others in their order.
Without(list, id) == SelectSeq(list, LAMBDA x : x # id)

\* The call in flight moves a note of the source list (the index is a
\* position of the list the source step had when the call started).
MovesListedNote ==
    /\ op.name = "moveNote"
    /\ op.index < Len(Field(pre[op.sequence], op.kind))
    /\ At(Field(pre[op.sequence], op.kind), op.index) # Undefined

\* The note the call in flight moves.
MovedNote == At(Field(pre[op.sequence], op.kind), op.index)

\* Test steps whose bug/notice list of the call's kind holds id.
StepsHolding(id) ==
    {s \in Sequences1 : id \in Range(Field(steps[s], op.kind))}

(***************************************************************************)
(* C1.  A successful move of a bug or notice between two different steps:  *)
(* the moved note occurs exactly once in the destination list, as its last *)
(* entry, at the index the call returns; it no longer occurs in the source *)
(* list; the other notes of both lists keep their order.                   *)
(***************************************************************************)
C1_SuccessfulMove ==
    (/\ pc = "done"
     /\ MovesListedNote
     /\ op.sequence # op.dest)
    => LET source == Field(steps[op.sequence], op.kind)
           dest == Field(steps[op.dest], op.kind)
       IN /\ reply.succeeded
          /\ Occurrences(dest, MovedNote) = 1
          /\ reply.index = Len(dest) - 1
          /\ At(dest, reply.index) = MovedNote
          /\ MovedNote \notin Range(source)
          /\ source = Without(Field(pre[op.sequence], op.kind), MovedNote)
          /\ Without(dest, MovedNote) = Field(pre[op.dest], op.kind)

\* A successful move out of a list of two or more notes into a list that is
\* not empty.
C1_Witness ==
    /\ pc = "done"
    /\ MovesListedNote
    /\ op.sequence # op.dest
    /\ Len(Field(pre[op.sequence], op.kind)) >= 2
    /\ Len(Field(pre[op.dest], op.kind)) >= 1

(***************************************************************************)
(* C2.  A move is atomic under failure: when moveBug / moveNotice returns, *)
(* with success or with failure, the moved note is attached to exactly one *)
(* test step in the backend.                                               *)
(***************************************************************************)
C2_MoveAtomicUnderFailure ==
    (/\ pc \in {"done", "failed"}
     /\ MovesListedNote)
    => Cardinality(StepsHolding(MovedNote)) = 1

(***************************************************************************)
(* C3.  A move whose destination is its source is a no-op: when it returns *)
(* with success, the step's lists hold the same notes at the same indexes  *)
(* as before the call.                                                     *)
(***************************************************************************)
C3_SameStepMoveIsNoOp ==
    (/\ pc = "done"
     /\ MovesListedNote
     /\ op.sequence = op.dest)
    => steps = pre

(***************************************************************************)
(* C4.  moveIntention is atomic: when it returns, with success or with     *)
(* failure, the intention that was on the source step is linked to exactly *)
(* one step; after success that step is the destination, and a source      *)
(* other than the destination has no intention.                            *)
(***************************************************************************)
C4_MoveIntentionAtomic ==
    (/\ pc \in {"done", "failed"}
     /\ op.name = "moveIntention")
    => LET moved == pre[op.sequence].intention
       IN /\ Cardinality({s \in Sequences1 : steps[s].intention = moved}) = 1
          /\ pc = "done" =>
                /\ steps[op.dest].intention = moved
                /\ op.sequence # op.dest =>
                      steps[op.sequence].intention = Undefined

NotesOf(entry, kind) == IF kind = "bug" THEN entry.bugs ELSE entry.notices

\* The history with the list of kind replaced, by F, in the entries of the
\* sequence number.
OnNotes(h, kind, sequence, F(_)) ==
    [i \in DOMAIN h |->
        IF h[i].operation.sequence # sequence THEN h[i]
        ELSE IF kind = "bug" THEN [h[i] EXCEPT !.bugs = F(@)]
        ELSE [h[i] EXCEPT !.notices = F(@)]]

\* Mutation setBug / setNotice: the note is put at the index of the list of
\* its operation, or appended when the list is shorter.
SetNote(h, kind, note, index) ==
    LET Put(list) == IF index < Len(list)
                     THEN [list EXCEPT ![index + 1] = note]
                     ELSE Append(list, note)
    IN  OnNotes(h, kind, note.sequence, Put)

\* Mutation deleteBug / deleteNotice: the note at the index is removed.
DeleteNote(h, kind, sequence, index) ==
    LET Cut(list) == FilterOut(list, index)
    IN  OnNotes(h, kind, sequence, Cut)

\* Mutation replaceNoteImageFileUrl: the note at (type, sequence, index)
\* gets the URL.
ReplaceNoteImageFileUrl(h, kind, sequence, index, imageFileUrl) ==
    LET Swap(list) == IF index < Len(list)
                      THEN [list EXCEPT ![index + 1].image = imageFileUrl]
                      ELSE list
    IN  OnNotes(h, kind, sequence, Swap)

\* recordBug sets the timer whenever compression is enabled; recordNotice
\* only when a screenshot was taken as well.
SchedulesNoteCompression(kind, shouldTakeScreenshot) ==
    IF kind = "bug" THEN imageCompression
    ELSE shouldTakeScreenshot /\ imageCompression

\* The timer of a recorded note: the patch will address (sequence, index).
NoteTimer(kind, sequence, index, noteId) ==
    [ kind |-> kind, phase |-> "timer", issued |-> <<0, noteId>>,
      target |-> 0, sequence |-> sequence, index |-> index,
      noteId |-> noteId ]

\* The save actions still awaiting their repository call once the call of
\* the given action for the given sequence number has returned.
Settled(action, sequence) ==
    {call \in calls : ~(call.action = action /\ call.sequence = sequence)}

\* The step a note action names is a step of the current test result, whose
\* operation is in the history.
IsRecordedStep(sequence) ==
    /\ testResultInfo = NotesResult
    /\ sequence \in Sequences1
    /\ sequence \in DOMAIN beOps[NotesResult]
    /\ \E i \in DOMAIN history : history[i].operation.sequence = sequence

\* recordBug / recordNotice on its add path (payload.index undefined):
\* addBug / addNotice saves the note, the note is committed, the models may
\* be rebuilt, and the timer is set.
RecordNote(kind, sequence, shouldTakeScreenshot) ==
    /\ IsRecordedStep(sequence)
    /\ nextId <= MaxRecorded
    /\ LET noteId == nextId
           list == AddedList(Field(steps[sequence], kind), noteId)
           index == AddedIndex(list)
           image == IF shouldTakeScreenshot
                    THEN [owner |-> <<0, noteId>>, compressed |-> FALSE,
                          absolute |-> TRUE]
                    ELSE NoImage
           note == [id |-> noteId, ref |-> noteId, sequence |-> sequence,
                    image |-> image]
       IN  /\ noteStore' = noteStore \cup {noteId}
           /\ nextId' = nextId + 1
           /\ noteImages' = [noteImages EXCEPT ![noteId] =
                                IF shouldTakeScreenshot THEN "original"
                                ELSE "none"]
           /\ steps' = Patched(sequence, kind, list)
           /\ history' = SetNote(history, kind, note, index)
           /\ SetCanUpdateModels
           /\ timers' = IF SchedulesNoteCompression(kind,
                                                    shouldTakeScreenshot)
                        THEN timers \cup
                             {NoteTimer(kind, sequence, index, noteId)}
                        ELSE timers
    /\ calls' = Settled(IF kind = "bug" THEN "saveBug" ELSE "saveNotice",
                        sequence)
    /\ UNCHANGED rejected
    /\ UNCHANGED <<imageCompression, testResultInfo, screenHistory,
                   windowHandles, screenHistoryIsUpdating, updating,
                   resultCount, beOps, registering>>
    /\ UNCHANGED <<pc, op, reply, pre, genVars, buildVars, otherVars>>

\* The Note editBug / editNotice returns: built from the saved note without
\* its id.
EditedNote(noteId, sequence) ==
    [NoteOf(noteId, sequence) EXCEPT !.id = Undefined]

\* recordBug / recordNotice on its edit path (payload.index defined):
\* editBug / editNotice updates the note at the index of the step's list and
\* returns it with the index; the note is committed, the models may be
\* rebuilt, and the timer is set for recordedNote.bug.id.
RecordEditedNote(kind, sequence, index, shouldTakeScreenshot) ==
    /\ IsRecordedStep(sequence)
    /\ IndexInList(kind, sequence, index)
    /\ LET noteId == At(Field(steps[sequence], kind), index)
           note == EditedNote(noteId, sequence)
       IN  /\ noteId \in noteStore
           /\ history' = SetNote(history, kind, note, index)
           /\ SetCanUpdateModels
           /\ timers' = IF SchedulesNoteCompression(kind,
                                                    shouldTakeScreenshot)
                        THEN timers \cup
                             {NoteTimer(kind, sequence, index, note.id)}
                        ELSE timers
    /\ UNCHANGED <<imageCompression, testResultInfo, screenHistory,
                   windowHandles, screenHistoryIsUpdating, updating,
                   resultCount, beOps, noteImages, registering, rejected>>
    /\ UNCHANGED <<noteVars, genVars, modelVars>>

\* moveBug / moveNotice: the dispatcher unlinks the note from the source
\* step and links it to the destination; deleteBug(from) and setBug(moved)
\* are committed.  The Note the dispatcher returns carries no id.
MoveNoteCommitted(kind, from, index, dest) ==
    /\ IsRecordedStep(from)
    /\ IsRecordedStep(dest)
    /\ IndexInList(kind, from, index)
    /\ LET fromList == Field(steps[from], kind)
           unlinked == Patched(from, kind,
                               RemainingFromList(fromList, index))
           destList == Field(unlinked[dest], kind)
           linked == MovedDestList(destList, fromList, index)
           moved == [NoteOf(At(fromList, index), dest) EXCEPT
                        !.id = Undefined]
       IN  /\ steps' = [unlinked EXCEPT ![dest] =
                           IF kind = "bug" THEN [@ EXCEPT !.bugs = linked]
                           ELSE [@ EXCEPT !.notices = linked]]
           /\ history' = SetNote(DeleteNote(history, kind, from, index),
                                 kind, moved, MovedIndex(destList))
    /\ SetCanUpdateModels
    /\ UNCHANGED <<imageCompression, testResultInfo, screenHistory,
                   windowHandles, screenHistoryIsUpdating, updating,
                   resultCount, beOps, noteImages, registering, timers,
                   rejected>>
    /\ UNCHANGED <<noteStore, nextId, pc, op, reply, pre, genVars, modelVars>>

\* deleteBug / deleteNotice: the dispatcher deletes the note and unlinks
\* it; the mutation removes it from the history.
DeleteNoteCommitted(kind, sequence, index) ==
    /\ IsRecordedStep(sequence)
    /\ IndexInList(kind, sequence, index)
    /\ LET list == Field(steps[sequence], kind) IN
           /\ noteStore' = noteStore \ {At(list, index)}
           /\ steps' = Patched(sequence, kind, FilterOut(list, index))
    /\ history' = DeleteNote(history, kind, sequence, index)
    /\ SetCanUpdateModels
    /\ UNCHANGED <<imageCompression, testResultInfo, screenHistory,
                   windowHandles, screenHistoryIsUpdating, updating,
                   resultCount, beOps, noteImages, registering, timers,
                   rejected>>
    /\ UNCHANGED <<nextId, pc, op, reply, pre, genVars, modelVars>>

\* The timer of a note fires: compressNoteImage is requested for the test
\* result that is current at this moment and for the note's id.
NoteTimerFires ==
    \E task \in timers :
        /\ task.kind # "step"
        /\ task.phase = "timer"
        /\ timers' = (timers \ {task}) \cup
                     {[task EXCEPT !.phase = "requested",
                                   !.target = testResultInfo]}
    /\ UNCHANGED <<imageCompression, testResultInfo, history,
                   canUpdateModels, screenHistory, windowHandles,
                   screenHistoryIsUpdating, updating, resultCount, beOps,
                   noteImages, registering, rejected>>
    /\ StoreFrame

\* The URL compressNoteImage's caller commits: the compressed file of the
\* note, as the backend gave it.
CompressedNoteImage(noteId) ==
    [owner |-> <<0, noteId>>, compressed |-> TRUE, absolute |-> FALSE]

\* The compression of a note's screenshot succeeds:
\* replaceNoteImageFileUrl is committed for (type, sequence, index).
NoteCompressionSucceeds ==
    \E task \in timers :
        /\ task.kind # "step"
        /\ task.phase = "requested"
        /\ task.target = NotesResult
        /\ task.noteId \in noteStore
        /\ noteImages[task.noteId] # "none"
        /\ noteImages' = [noteImages EXCEPT ![task.noteId] = "compressed"]
        /\ history' = ReplaceNoteImageFileUrl(history, task.kind,
                          task.sequence, task.index,
                          CompressedNoteImage(task.noteId))
        /\ timers' = timers \ {task}
    /\ UNCHANGED <<imageCompression, testResultInfo, canUpdateModels,
                   screenHistory, windowHandles, screenHistoryIsUpdating,
                   updating, resultCount, beOps, registering, rejected>>
    /\ StoreFrame

\* The compression of a note's screenshot fails: the callback throws.
NoteCompressionFails ==
    \E task \in timers :
        /\ task.kind # "step"
        /\ task.phase = "requested"
        /\ history' = HistoryAfterFailedCompression(history, task)
        /\ timers' = timers \ {task}
    /\ UNCHANGED <<imageCompression, testResultInfo, canUpdateModels,
                   screenHistory, windowHandles, screenHistoryIsUpdating,
                   updating, resultCount, beOps, noteImages, registering,
                   rejected>>
    /\ StoreFrame

RecordNext ==
    \/ Cardinality(RegisteredSteps) < MaxEdited
          /\ RegisterOperation("w1", "Login", TRUE)
    \/ RegisterOperationReply
    \/ StepTimerFires
    \/ StepCompressionSucceeds
    \/ StepCompressionFails
    \/ \E kind \in Kinds, sequence \in Sequences1,
          shouldTakeScreenshot \in BOOLEAN :
          nextId <= MaxEdited
              /\ RecordNote(kind, sequence, shouldTakeScreenshot)
    \/ \E kind \in Kinds, from \in Sequences1, index \in Indexes,
          dest \in Sequences1 : MoveNoteCommitted(kind, from, index, dest)
    \/ \E kind \in Kinds, sequence \in Sequences1, index \in Indexes :
          DeleteNoteCommitted(kind, sequence, index)
    \/ NoteTimerFires
    \/ NoteCompressionSucceeds
    \/ NoteCompressionFails

SpecRecord == InitRecording /\ [][RecordNext]_vars

\* The same with up to MaxRecorded notes, so that a step holds several.
ReaddressNext ==
    \/ RegisterOperation("w1", "Login", TRUE)
    \/ RegisterOperationReply
    \/ StepTimerFires
    \/ StepCompressionSucceeds
    \/ StepCompressionFails
    \/ \E kind \in Kinds, sequence \in Sequences1,
          shouldTakeScreenshot \in BOOLEAN :
          RecordNote(kind, sequence, shouldTakeScreenshot)
    \/ \E kind \in Kinds, from \in Sequences1, index \in Indexes,
          dest \in Sequences1 : MoveNoteCommitted(kind, from, index, dest)
    \/ \E kind \in Kinds, sequence \in Sequences1, index \in Indexes :
          DeleteNoteCommitted(kind, sequence, index)
    \/ NoteTimerFires
    \/ NoteCompressionSucceeds
    \/ NoteCompressionFails

SpecReaddress == InitRecording /\ [][ReaddressNext]_vars

\* Notes are recorded and then edited in place.
EditedNext ==
    \/ Cardinality(RegisteredSteps) < MaxEdited
          /\ RegisterOperation("w1", "Login", TRUE)
    \/ RegisterOperationReply
    \/ StepTimerFires
    \/ StepCompressionSucceeds
    \/ \E kind \in Kinds, sequence \in Sequences1,
          shouldTakeScreenshot \in BOOLEAN :
          RecordNote(kind, sequence, shouldTakeScreenshot)
    \/ \E kind \in Kinds, sequence \in Sequences1, index \in Indexes,
          shouldTakeScreenshot \in BOOLEAN :
          RecordEditedNote(kind, sequence, index, shouldTakeScreenshot)
    \/ NoteTimerFires
    \/ NoteCompressionSucceeds
    \/ NoteCompressionFails

SpecEdited == InitRecording /\ [][EditedNext]_vars


(* ---------------------------------------------------------------------- *)
(* SpecWindows: updateScreenHistory applied to every history of up to     *)
(* MaxHistory operations.                                                 *)
(* ---------------------------------------------------------------------- *)

\* The operations a capture can register, as the backend keeps them.
CapturedSteps ==
    {[windowHandle |-> w, screenDef |-> d, hasImage |-> FALSE,
      compressed |-> FALSE] : w \in WindowHandles, d \in ScreenDefs}

\* The store after registerOperation has run for each of the operations in
\* turn, in the first test result, with compression disabled.
InitRegistered ==
    \E n \in 0 .. MaxHistory : \E ops \in [1 .. n -> CapturedSteps] :
        /\ imageCompression = FALSE
        /\ testResultInfo = 1
        /\ history = [s \in 1 .. n |-> NewEntry(OperationOf(ops[s], 1, s))]
        /\ canUpdateModels = (n > 0)
        /\ screenHistory = <<>>
        /\ windowHandles = <<>>
        /\ screenHistoryIsUpdating = FALSE
        /\ updating = "none"
        /\ resultCount = 1
        /\ beOps = [t \in TestResults |-> IF t = 1 THEN ops ELSE <<>>]
        /\ noteImages = [id \in NoteIds |-> "none"]
        /\ registering = {}
        /\ timers = {}
        /\ rejected = {}
        /\ coverageSources = CoverageSourcesOf(ops, n)
        /\ models = NoModels
        /\ builds = [i \in BuildIds |-> NoBuild]
        /\ calls = {}
        /\ access = NoAccess
    /\ selection = NoSelection
    /\ clicked = NoClick
    /\ urls = NoUrls
    /\ inputElementInfos = InputElementInfosOf(beOps[1], Len(beOps[1]))
    /\ isResuming = FALSE
    /\ projects = NoProjects

WindowsNext ==
    \/ UpdateScreenHistory
    \/ UpdateScreenHistoryEnds

InitWindows == NotesInit /\ GenerateInit /\ InitRegistered

SpecWindows == InitWindows /\ [][WindowsNext]_vars

(* ---------------------------------------------------------------------- *)
(* SpecScreen: the actions that change the history, and the rebuild of    *)
(* the screen history.  Each repository call succeeds and is taken in     *)
(* one step.                                                              *)
(* ---------------------------------------------------------------------- *)

\* Mutations setIntention / deleteIntention: the entries of the sequence
\* number get the intention, or none.
WithIntention(h, sequence, intention) ==
    [i \in DOMAIN h |->
        IF h[i].operation.sequence = sequence
        THEN [h[i] EXCEPT !.intention = intention] ELSE h[i]]

\* The Note addIntention, editIntention and moveIntention return: it
\* carries no id.
IntentionOf(noteId, sequence) ==
    [id |-> Undefined, ref |-> noteId, sequence |-> sequence,
     image |-> NoImage]

\* saveIntention for a step without intention: addIntention saves and links
\* the note; setIntention is committed and the models may be rebuilt.
IntentionRecorded(sequence) ==
    /\ IsRecordedStep(sequence)
    /\ steps[sequence].intention = Undefined
    /\ nextId <= MaxRecorded
    /\ noteStore' = noteStore \cup {nextId}
    /\ nextId' = nextId + 1
    /\ steps' = PatchedIntention(sequence, nextId)
    /\ history' = WithIntention(history, sequence,
                                IntentionOf(nextId, sequence))
    /\ SetCanUpdateModels
    /\ calls' = Settled("saveIntention", sequence)
    /\ UNCHANGED <<imageCompression, testResultInfo, screenHistory,
                   windowHandles, screenHistoryIsUpdating, updating,
                   resultCount, beOps, noteImages, registering, timers,
                   rejected>>
    /\ UNCHANGED <<pc, op, reply, pre, genVars, buildVars, otherVars>>

\* saveIntention moving the intention: moveIntention unlinks it from the
\* source step and links it to the destination; deleteIntention(from) and
\* setIntention(moved) are committed.
IntentionMoved(from, dest) ==
    /\ IsRecordedStep(from)
    /\ IsRecordedStep(dest)
    /\ from # dest
    /\ steps[from].intention # Undefined
    /\ steps' = [steps EXCEPT
                    ![from] = [@ EXCEPT !.intention =
                                  SourceIntentionAfterMove],
                    ![dest] = [@ EXCEPT !.intention =
                                  steps[from].intention]]
    /\ history' = WithIntention(WithIntention(history, from, NoNote), dest,
                                IntentionOf(steps[from].intention, dest))
    /\ SetCanUpdateModels
    /\ UNCHANGED <<imageCompression, testResultInfo, screenHistory,
                   windowHandles, screenHistoryIsUpdating, updating,
                   resultCount, beOps, noteImages, registering, timers,
                   rejected>>
    /\ UNCHANGED <<noteStore, nextId, pc, op, reply, pre, genVars, modelVars>>

\* deleteIntention: the note is deleted and unlinked; the mutation removes
\* it from the entry.
IntentionDeleted(sequence) ==
    /\ IsRecordedStep(sequence)
    /\ steps[sequence].intention # Undefined
    /\ noteStore' = noteStore \ {steps[sequence].intention}
    /\ steps' = PatchedIntention(sequence, Undefined)
    /\ history' = WithIntention(history, sequence, NoNote)
    /\ SetCanUpdateModels
    /\ UNCHANGED <<imageCompression, testResultInfo, screenHistory,
                   windowHandles, screenHistoryIsUpdating, updating,
                   resultCount, beOps, noteImages, registering, timers,
                   rejected>>
    /\ UNCHANGED <<nextId, pc, op, reply, pre, genVars, modelVars>>

InitCreated == NotesInit /\ GenerateInit /\ StoreInit(FALSE, 1)

ScreenNext ==
    \/ RegisterOperation("w1", "Login", FALSE)
    \/ RegisterOperationReply
    \/ \E kind \in Kinds, sequence \in Sequences1 :
          nextId <= MaxEdited /\ RecordNote(kind, sequence, FALSE)
    \/ \E kind \in Kinds, from \in Sequences1, index \in Indexes,
          dest \in Sequences1 : MoveNoteCommitted(kind, from, index, dest)
    \/ \E kind \in Kinds, sequence \in Sequences1, index \in Indexes :
          DeleteNoteCommitted(kind, sequence, index)
    \/ \E sequence \in Sequences1 :
          nextId <= MaxEdited /\ IntentionRecorded(sequence)
    \/ \E from \in Sequences1, dest \in Sequences1 :
          IntentionMoved(from, dest)
    \/ \E sequence \in Sequences1 : IntentionDeleted(sequence)
    \/ Resume(NotesResult)
    \/ ResumeUpdatesScreenHistory
    \/ UpdateScreenHistory
    \/ UpdateScreenHistoryEnds

SpecScreen == InitCreated /\ [][ScreenNext]_vars

\* SpecHistory: every store action that commits to the history of one test
\* result, with the compressions of the test steps and the rebuild.  The
\* rebuild is dispatched while the history is short and no compression is
\* pending.
HistoryNext ==
    \/ RegisterOperation("w1", "Login", TRUE)
    \/ RegisterOperationReply
    \/ StepTimerFires
    \/ StepCompressionSucceeds
    \/ StepCompressionFails
    \/ \E sequence \in Sequences1 :
          nextId <= MaxEdited /\ RecordNote("bug", sequence, FALSE)
    \/ \E from \in Sequences1, index \in Indexes, dest \in Sequences1 :
          MoveNoteCommitted("bug", from, index, dest)
    \/ \E sequence \in Sequences1, index \in Indexes :
          DeleteNoteCommitted("bug", sequence, index)
    \/ \E sequence \in Sequences1 :
          nextId <= MaxEdited /\ IntentionRecorded(sequence)
    \/ \E from \in Sequences1, dest \in Sequences1 :
          IntentionMoved(from, dest)
    \/ \E sequence \in Sequences1 : IntentionDeleted(sequence)
    \/ Len(history) <= MaxEdited /\ timers = {} /\ UpdateScreenHistory
    \/ UpdateScreenHistoryEnds

SpecHistory == InitRecording /\ [][HistoryNext]_vars

(* ---------------------------------------------------------------------- *)
(* SpecDiagram and SpecRebuild: updateScreenHistory await by await.  A    *)
(* run holds its window list (a local constant) and the payload of the    *)
(* conversion it awaits; each payload takes the screen history the store  *)
(* holds when the conversion is dispatched.  SpecDiagram lets the         *)
(* conversions of the screen transition diagrams fail; SpecRebuild lets   *)
(* a rebuild be dispatched while another one is in flight.                *)
(* ---------------------------------------------------------------------- *)

Running == {i \in BuildIds : builds[i].stage # "idle"}

\* updateScreenHistory down to the await of buildSequenceDiagramGraph.
UpdateScreenHistoryStarts ==
    /\ updating = "none"
    /\ \E i \in BuildIds :
          /\ builds[i].stage = "idle"
          /\ \A k \in BuildIds : k < i => builds[k].stage # "idle"
          /\ UpdateScreenHistoryBuilds
          /\ builds' = [builds EXCEPT ![i] =
                 [ stage |-> "sequence",
                   windowHandles |-> WindowHandlesOf(history),
                   payload |-> CreateFromOperationHistory(history),
                   conversions |-> <<>> ]]
    /\ UNCHANGED <<imageCompression, testResultInfo, history,
                   canUpdateModels, updating, resultCount, beOps,
                   noteImages, registering, timers, rejected>>
    /\ UNCHANGED <<noteVars, genVars, otherVars, calls, coverageSources>>

\* A slip in a run: a step that also empties the coverage sources.
BuildFrame_ClearsSources ==
    /\ coverageSources' = <<>>
    /\ UNCHANGED <<imageCompression, testResultInfo, history,
                   canUpdateModels, screenHistory, windowHandles,
                   screenHistoryIsUpdating, updating, resultCount, beOps,
                   noteImages, registering, timers, rejected>>
    /\ UNCHANGED <<noteVars, genVars, otherVars, calls>>

\* What the steps of a run leave alone when the run goes on.
BuildFrame ==
    /\ UNCHANGED <<imageCompression, testResultInfo, history,
                   canUpdateModels, screenHistory, windowHandles,
                   screenHistoryIsUpdating, updating, resultCount, beOps,
                   noteImages, registering, timers, rejected>>
    /\ UNCHANGED <<noteVars, genVars, otherVars, calls, coverageSources>>

\* buildSequenceDiagramGraph resolves: the sequence diagram is committed,
\* and buildScreenTransitionDiagramGraph starts one conversion per window
\* handle on the screen history the store holds now.
SequenceDiagramGraphBuilt(i) ==
    /\ builds[i].stage = "sequence"
    /\ models' = [models EXCEPT !.sequenceDiagramGraph =
           <<SequenceDiagramGraph(builds[i].payload,
                                  builds[i].windowHandles)>>]
    /\ builds' = [builds EXCEPT ![i] =
           [ stage |-> "transition",
             windowHandles |-> builds[i].windowHandles,
             payload |-> screenHistory,
             conversions |-> [k \in DOMAIN builds[i].windowHandles |->
                                 "running"] ]]
    /\ BuildFrame

\* The conversion of one window handle resolves; its graph stays in the
\* promise.
ConversionResolves(i, k) ==
    /\ builds[i].stage = "transition"
    /\ k \in DOMAIN builds[i].conversions
    /\ builds[i].conversions[k] = "running"
    /\ builds' = [builds EXCEPT ![i].conversions[k] = "done"]
    /\ UNCHANGED models
    /\ BuildFrame

\* The conversion of one window handle throws.
ConversionRejects(i, k) ==
    /\ builds[i].stage = "transition"
    /\ k \in DOMAIN builds[i].conversions
    /\ builds[i].conversions[k] = "running"
    /\ builds' = [builds EXCEPT ![i].conversions[k] = "failed"]
    /\ UNCHANGED models
    /\ BuildFrame

\* Promise.all resolves when only some conversion has resolved.
JoinedConversions_Any(build) ==
    \E k \in DOMAIN build.conversions : build.conversions[k] = "done"

\* Promise.all resolves: every conversion has resolved.
JoinedConversions(build) ==
    \A k \in DOMAIN build.conversions : build.conversions[k] = "done"

\* The await of Promise.all returns: the graphs are committed one after
\* the other, and buildElementCoverages is dispatched on the screen
\* history the store holds now.
ScreenTransitionDiagramGraphBuilt(i) ==
    /\ builds[i].stage = "transition"
    /\ JoinedConversions(builds[i])
    /\ models' = [models EXCEPT !.screenTransitionDiagramGraphs =
           CommitGraphs(@, builds[i].payload,
                        Values(builds[i].windowHandles), 1)]
    /\ builds' = [builds EXCEPT ![i] =
           [ stage |-> "coverage",
             windowHandles |-> builds[i].windowHandles,
             payload |-> screenHistory,
             conversions |-> <<>> ]]
    /\ BuildFrame

\* Promise.all rejects with the first conversion that threw: nothing is
\* committed, the finally block of updateScreenHistory lowers the flag and
\* the action rejects.
ScreenTransitionDiagramGraphRejects(i) ==
    /\ builds[i].stage = "transition"
    /\ \E k \in DOMAIN builds[i].conversions :
          builds[i].conversions[k] = "failed"
    /\ builds' = [builds EXCEPT ![i] = NoBuild]
    /\ screenHistoryIsUpdating' = FALSE
    /\ Rejects("updateScreenHistory")
    /\ UNCHANGED models
    /\ UNCHANGED <<imageCompression, testResultInfo, history,
                   canUpdateModels, screenHistory, windowHandles, updating,
                   resultCount, beOps, noteImages, registering, timers>>
    /\ UNCHANGED <<noteVars, genVars, otherVars, calls, coverageSources>>

\* buildElementCoverages resolves: the coverages are committed, the
\* exclusion list is updated, and the finally block lowers the flag.
ElementCoveragesBuilt(i) ==
    /\ builds[i].stage = "coverage"
    /\ models' = [models EXCEPT !.elementCoverages =
           ElementCoverages(builds[i].payload)]
    /\ builds' = [builds EXCEPT ![i] = NoBuild]
    /\ screenHistoryIsUpdating' = FALSE
    /\ UNCHANGED <<imageCompression, testResultInfo, history,
                   canUpdateModels, screenHistory, windowHandles, updating,
                   resultCount, beOps, noteImages, registering, timers,
                   rejected>>
    /\ UNCHANGED <<noteVars, genVars, otherVars, calls, coverageSources>>

DiagramNext ==
    \/ \E w \in {"w1", "w2"} : RegisterOperation(w, "Login", FALSE)
    \/ RegisterOperationReply
    \/ Cardinality(Running) < MaxBuilds /\ UpdateScreenHistoryStarts
    \/ \E i \in BuildIds : SequenceDiagramGraphBuilt(i)
    \/ \E i \in BuildIds, k \in 1 .. (MaxOps + 1) : ConversionResolves(i, k)
    \/ \E i \in BuildIds, k \in 1 .. (MaxOps + 1) : ConversionRejects(i, k)
    \/ \E i \in BuildIds : ScreenTransitionDiagramGraphBuilt(i)
    \/ \E i \in BuildIds : ScreenTransitionDiagramGraphRejects(i)
    \/ \E i \in BuildIds : ElementCoveragesBuilt(i)

SpecDiagram == InitCreated /\ [][DiagramNext]_vars

RebuildNext ==
    \/ Cardinality(RegisteredSteps) < MaxEdited
          /\ RegisterOperation("w1", "Login", FALSE)
    \/ RegisterOperationReply
    \/ Cardinality(Running) < MaxBuilds + 1 /\ UpdateScreenHistoryStarts
    \/ \E i \in BuildIds : SequenceDiagramGraphBuilt(i)
    \/ \E i \in BuildIds, k \in 1 .. MaxEdited : ConversionResolves(i, k)
    \/ \E i \in BuildIds : ScreenTransitionDiagramGraphBuilt(i)
    \/ \E i \in BuildIds : ElementCoveragesBuilt(i)

SpecRebuild == InitCreated /\ [][RebuildNext]_vars

(* ---------------------------------------------------------------------- *)
(* SpecSerial: the save actions as their caller sees them.  The caller    *)
(* dispatches a save action only when no earlier dispatch is pending; a   *)
(* call stays in the set until its repository call has returned.          *)
(* ---------------------------------------------------------------------- *)

\* Nothing but the set of calls changes.
CallsFrame ==
    UNCHANGED <<noteVars, genVars, storeVars, buildVars, otherVars>>

\* No dispatch of the caller is pending.
DispatchResolved == \A call \in calls : ~call.pending

\* saveIntention for a step without intention: SaveIntentionAction.save is
\* called and its promise is dropped, so the dispatch resolves while
\* addIntention is in flight.
SaveIntention(sequence) ==
    /\ DispatchResolved
    /\ IsRecordedStep(sequence)
    /\ steps[sequence].intention = Undefined
    /\ calls' = calls \cup {[action |-> "saveIntention",
                              sequence |-> sequence, pending |-> FALSE]}
    /\ CallsFrame

\* saveBug for a new bug: the dispatch awaits recordBug, which awaits
\* addBug.
SaveBug(sequence) ==
    /\ DispatchResolved
    /\ IsRecordedStep(sequence)
    /\ calls' = calls \cup {[action |-> "saveBug", sequence |-> sequence,
                              pending |-> TRUE]}
    /\ CallsFrame

SerialNext ==
    \/ RegisterOperation("w1", "Login", FALSE)
    \/ RegisterOperationReply
    \/ \E sequence \in Sequences1 : SaveIntention(sequence)
    \/ \E sequence \in Sequences1 : SaveBug(sequence)
    \/ \E call \in calls :
          call.action = "saveIntention" /\ IntentionRecorded(call.sequence)
    \/ \E call \in calls :
          call.action = "saveBug" /\ RecordNote("bug", call.sequence, FALSE)
    \/ \E sequence \in Sequences1 : IntentionDeleted(sequence)

SpecSerial == InitCreated /\ [][SerialNext]_vars

(* ---------------------------------------------------------------------- *)
(* SpecAccess: one repository method, from its request to its result.     *)
(* ---------------------------------------------------------------------- *)

\* createConnectionRefusedFailure()
ConnectionRefusedFailure ==
    [succeeded |-> FALSE, error |-> "connection_refused", status |-> 0]

\* createRepositoryAccessFailure(response): the failure carries the status
\* of the response.
RepositoryAccessFailure(response) ==
    [succeeded |-> FALSE, error |-> "rejected", status |-> response.status]

\* new RepositoryAccessSuccess({ data }) / { succeeded: true, data }
RepositoryAccessSuccess(response) ==
    [succeeded |-> TRUE, error |-> "", status |-> response.status]

\* The catch block of a method of RepositoryServiceDispatcher.
ServiceNotFound ==
    [succeeded |-> FALSE, error |-> "repository_service_not_found",
     status |-> 0]

RepositoryAccessResult_AnyNormalStatus(method, response) ==
    IF response.transport = "failed" THEN ConnectionRefusedFailure
    ELSE IF response.status \notin {200, 204}
         THEN RepositoryAccessFailure(response)
         ELSE RepositoryAccessSuccess(response)

\* The result of a method of TestTargetRepository or ProjectRepository.
RepositoryAccessResult(method, response) ==
    IF response.transport = "failed" THEN ConnectionRefusedFailure
    ELSE IF response.status # method.success
         THEN RepositoryAccessFailure(response)
         ELSE RepositoryAccessSuccess(response)

\* The Reply of getSettings.  Its REST client hands back the body, not the
\* response: httpGet either has thrown on the status (thrown) or has
\* returned the body of the answer whatever its status.
SettingsReply(response, thrown) ==
    IF response.transport = "failed" \/ thrown THEN ServiceNotFound
    ELSE RepositoryAccessSuccess(response)

AccessFrame ==
    UNCHANGED <<noteVars, genVars, storeVars, buildVars, calls, selection,
                clicked, urls, projects, inputElementInfos, isResuming>>

\* The method is called and sends its request.
RepositoryRequest(method) ==
    /\ access.phase = "idle"
    /\ access' = [NoAccess EXCEPT !.phase = "requested", !.method = method]
    /\ AccessFrame

\* The REST client settles the request.
RepositoryResponse(response) ==
    /\ access.phase = "requested"
    /\ access' = [access EXCEPT !.phase = "settled", !.response = response]
    /\ AccessFrame

\* The method returns its result.
RepositoryReturns ==
    /\ access.phase = "settled"
    /\ \E thrown \in BOOLEAN :
          /\ thrown => /\ access.response.transport = "answered"
                       /\ access.response.status \notin {200, 204}
                       /\ access.method.repository
                              = "RepositoryServiceDispatcher"
          /\ access' = [access EXCEPT
                 !.phase = "returned",
                 !.result =
                     IF access.method.repository
                            = "RepositoryServiceDispatcher"
                     THEN SettingsReply(access.response, thrown)
                     ELSE RepositoryAccessResult(access.method,
                                                 access.response)]
    /\ AccessFrame

\* The caller has the result.
RepositoryDone ==
    /\ access.phase = "returned"
    /\ access' = NoAccess
    /\ AccessFrame

AccessNext ==
    \/ \E method \in Methods : RepositoryRequest(method)
    \/ \E response \in Responses : RepositoryResponse(response)
    \/ RepositoryReturns
    \/ RepositoryDone

SpecAccess == Init /\ [][AccessNext]_vars


\* The compressions of the set whose request is not yet answered, by the
\* operation or note they were set for.
Pending(tasks) == {<<task.kind, task.issued>> : task \in tasks}

\* The entries with their image URLs blanked: what a compression may not
\* change.
WithoutImages(h) ==
    [i \in DOMAIN h |->
        [h[i] EXCEPT !.operation.imageFilePath = NoImage,
                     !.bugs = [n \in DOMAIN @ |->
                                  [@[n] EXCEPT !.image = NoImage]],
                     !.notices = [n \in DOMAIN @ |->
                                     [@[n] EXCEPT !.image = NoImage]]]]

C7_CompressionStaysInItsTestResult ==
    /\ \A task \in timers :
          (task.kind = "step" /\ task.phase = "requested")
          => task.target = task.issued[1]
    /\ \A i \in DOMAIN history :
          history[i].operation.imageFilePath # NoImage
          => history[i].operation.imageFilePath.owner
                 = <<history[i].operation.testResult,
                     history[i].operation.sequence>>


\* C8: every note of the history that shows a screenshot shows its own:
\* the replaceNoteImageFileUrl commit of a compression reaches the note
\* the compression was requested for and no other note, whatever moveBug,
\* moveNotice, deleteBug and deleteNotice did to the step in between.
C8_PatchReachesTheRecordedNote ==
    \A i \in DOMAIN history : \A kind \in Kinds :
        \A n \in DOMAIN NotesOf(history[i], kind) :
            LET note == NotesOf(history[i], kind)[n] IN
            note.image # NoImage => note.image.owner = <<0, note.ref>>


\* The position of the first operation of the window in the history.
FirstOperation(h, windowHandle) ==
    CHOOSE i \in DOMAIN h :
        /\ h[i].operation.windowHandle = windowHandle
        /\ \A m \in 1 .. (i - 1) : h[m].operation.windowHandle # windowHandle

\* C9: while a rebuild runs, the window list it computed has one entry per
\* distinct window handle of the history, the k-th entry is labelled
\* window<k>, its value is the handle, and the entries are in the order
\* of the first operation of their windows.
C9_LabelsFollowFirstAppearance ==
    updating = "view" =>
        LET handles == {history[i].operation.windowHandle :
                           i \in DOMAIN history}
        IN  /\ Len(windowHandles) = Cardinality(handles)
            /\ {windowHandles[k].value : k \in DOMAIN windowHandles}
                   = handles
            /\ \A k \in DOMAIN windowHandles : windowHandles[k].text = k
            /\ \A m, k \in DOMAIN windowHandles :
                  m < k => FirstOperation(history, windowHandles[m].value)
                              < FirstOperation(history,
                                               windowHandles[k].value)

\* A rebuild of a history in which the first window operates again after
\* a second window has appeared.
C9_Witness ==
    /\ updating = "view"
    /\ Len(history) = 3
    /\ history[1].operation.windowHandle = history[3].operation.windowHandle
    /\ history[1].operation.windowHandle # history[2].operation.windowHandle
    /\ Len(windowHandles) = 2
    /\ windowHandles[1].value = history[1].operation.windowHandle


\* C10 as stated: whenever no registerOperation and no rebuild is in
\* flight, the stored screen history is the projection of the current
\* history.
C10_ScreenHistoryIsCurrent ==
    (registering = {} /\ updating = "none")
        => screenHistory = CreateFromOperationHistory(history)

\* C10, amended: the screen history changes only in the step of
\* updateScreenHistory that builds it, and becomes the projection of the
\* history current in that step; resume goes on from its commit of the
\* resumed history to that step; every other step that changes the
\* history (registerOperation's commit, a note or intention commit) leaves
\* the screen history as it was and sets canUpdateModels.
C10_OnlyUpdateScreenHistoryRebuilds ==
    [][ /\ screenHistory' # screenHistory
              => /\ updating \in {"none", "resumed"}
                 /\ updating' \in {"view", "resume"}
                 /\ screenHistory' = CreateFromOperationHistory(history')
        /\ (updating = "resumed" /\ updating' # "resumed")
              => /\ updating' = "resume"
                 /\ history' = history
                 /\ screenHistory' = CreateFromOperationHistory(history)
        /\ (history' # history /\ updating' # "resumed")
              => /\ screenHistory' = screenHistory
                 /\ canUpdateModels'
      ]_vars

\* registerOperation or a note action has completed after a rebuild: the
\* screen history is the one built from the earlier history, and the
\* models may be rebuilt.
C10_Witness ==
    /\ registering = {}
    /\ updating = "none"
    /\ screenHistory # <<>>
    /\ screenHistory # CreateFromOperationHistory(history)
    /\ canUpdateModels

\* The keys of windowHandleToScreenTransitionDiagramGraph, in their order.
WindowsOfGraphs(graphs) == [j \in DOMAIN graphs |-> graphs[j].windowHandle]

\* C11: buildScreenTransitionDiagramGraph joins its conversions before it
\* commits.  A run that awaits them has one conversion per window handle;
\* a step in which a conversion resolves or throws changes nothing of the
\* store; the screen transition diagrams of the store change only when
\* clearModels empties them or when a run whose conversions have all
\* resolved leaves the await, and then every window handle of the run has
\* exactly one graph, its own, the other keys keep theirs, and the new keys
\* follow the old ones in the order of the window handles; a run of which a
\* conversion threw commits no graph.
C11_ConversionsJoinBeforeCommit ==
    /\ [](\A i \in BuildIds :
             builds[i].stage = "transition"
                 => Len(builds[i].conversions)
                        = Len(builds[i].windowHandles))
    /\ [][LET old == models.screenTransitionDiagramGraphs
              new == models'.screenTransitionDiagramGraphs
          IN  /\ \A i \in BuildIds :
                     ( /\ builds[i].stage = "transition"
                       /\ builds'[i].stage = "transition"
                       /\ builds'[i] # builds[i] )
                         => /\ models' = models
                            /\ storeVars' = storeVars
                            /\ coverageSources' = coverageSources
              /\ \A i \in BuildIds :
                     ( /\ builds[i].stage = "transition"
                       /\ builds'[i].stage # "transition"
                       /\ \E k \in DOMAIN builds[i].conversions :
                              builds[i].conversions[k] # "done" )
                         => new = old
              /\ new # old =>
                     \/ new = <<>>
                     \/ \E i \in BuildIds :
                           LET handles == Values(builds[i].windowHandles)
                               added == SelectSeq(handles, LAMBDA h :
                                            h \notin Range(WindowsOfGraphs(old)))
                           IN  /\ builds[i].stage = "transition"
                               /\ builds'[i].stage = "coverage"
                               /\ \A k \in DOMAIN builds[i].conversions :
                                      builds[i].conversions[k] = "done"
                               /\ WindowsOfGraphs(new)
                                      = WindowsOfGraphs(old) \o added
                               /\ \A j \in DOMAIN new :
                                      IF new[j].windowHandle \in Range(handles)
                                      THEN new[j].graph =
                                               ScreenTransitionDiagramGraph(
                                                   builds[i].payload,
                                                   new[j].windowHandle)
                                      ELSE new[j] = old[j]
         ]_vars

\* A run was rejected by a conversion that threw, and a later run has
\* committed the graphs of two windows, the window registered first coming
\* first.
C11_Witness ==
    /\ "updateScreenHistory" \in rejected
    /\ WindowsOfGraphs(models.screenTransitionDiagramGraphs) = <<"w2", "w1">>
    /\ Running = {}

\* The models a rebuild derives from a screen history and its window list.
ModelsOf(sh, handles) ==
    [ sequenceDiagramGraph |-> <<SequenceDiagramGraph(sh, handles)>>,
      screenTransitionDiagramGraphs |->
          CommitGraphs(<<>>, sh, Values(handles), 1),
      elementCoverages |-> ElementCoverages(sh) ]

\* C12: overlapping rebuilds are last-write-wins.  Once every run of
\* updateScreenHistory has completed, the sequence diagram, the screen
\* transition diagrams and the element coverages of the store are the ones
\* derived from the screen history and the window list of the run that
\* started last, which are the ones the store holds.
C12_LaterBuildWins ==
    (Running = {} /\ models.sequenceDiagramGraph # <<>>)
        => models = ModelsOf(screenHistory, windowHandles)

\* C13: note mutations are serialized.  The caller dispatching each save
\* action only after the previous dispatch has resolved, at most one
\* repository note mutation is in flight at any time.
C13_OneMutationInFlight == Cardinality(calls) <= 1

\* C14: a move whose index is outside the current list is surfaced as an
\* error.  When moveBug / moveNotice, dispatched with a from.index that is
\* no position of the source step's list, has returned, its reply reports
\* failure, the lists of every test step are what they were when the call
\* started (nothing is appended to the destination), and no note is gone.
C14_OutsideIndexIsAnError ==
    ( /\ op.name = "moveNote"
      /\ op.entry = "move"
      /\ op.index >= Len(Field(pre[op.sequence], op.kind))
      /\ pc \in {"done", "failed"} )
        => /\ pc = "failed"
           /\ ~reply.succeeded
           /\ steps = pre
           /\ \A s \in Sequences1, kind \in Kinds :
                  Range(Field(pre[s], kind)) \subseteq noteStore

\* C15: backend failures keep their kind.  When a repository method has
\* returned: if its request failed on transport the result is a failure; if
\* the request was answered with a status other than the method's success
\* status the result is a failure that carries the status of the response;
\* and the error of the second is never the error the same method reports
\* for a transport failure.
C15_FailuresKeepTheirKind ==
    access.phase = "returned" =>
        LET refused == [transport |-> "failed", status |-> 0]
            onTransport ==
                IF access.method.repository = "RepositoryServiceDispatcher"
                THEN SettingsReply(refused, FALSE)
                ELSE RepositoryAccessResult(access.method, refused)
        IN  /\ access.response.transport = "failed"
                => ~access.result.succeeded
            /\ ( /\ access.response.transport = "answered"
                 /\ access.response.status # access.method.success )
                => /\ ~access.result.succeeded
                   /\ access.result.status = access.response.status
                   /\ access.result.error # onTransport.error

\* C16: script generation fails clean and never retries.  A dispatch of
\* generateTestScripts that awaits generate(...) leaves the await once, to
\* return or to throw; when it returns it returns a URL and no error, when
\* it throws it throws an Error and returns no URL; and once it has returned
\* or thrown nothing more happens for this dispatch: its result stays until
\* the caller has it, and generate(...) is not invoked again.
C16_GenerateOnceAndFailClean ==
    [][ /\ genPc = "generating" /\ genVars' # genVars
            => /\ genPc' \in {"returned", "thrown"}
               /\ genPayload' = genPayload
        /\ genPc' = "returned" /\ genPc # "returned"
            => /\ genPc = "generating"
               /\ genResult'.url # ""
               /\ genResult'.error = ""
        /\ genPc' = "thrown" /\ genPc # "thrown"
            => /\ genPc = "generating"
               /\ genResult'.url = ""
               /\ genResult'.error # ""
        /\ genPc \in {"returned", "thrown"} /\ genVars' # genVars
            => genPc' = "idle"
        /\ genPc' = "generating" => genPc \in {"idle", "generating"}
      ]_vars

\* generate(...) has thrown because the scripts could not be saved: the
\* dispatch has thrown that error and holds no URL.
C16_Witness ==
    /\ genPc = "thrown"
    /\ genResult.error = "save_test_scripts_failed"
    /\ genResult.url = ""
    /\ ~GenerationIsEmpty(genPayload.sources)

\* C17: every non-empty image URL of the store's history is resolved
\* against the service URL: the image path of each operation and of each
\* bug and notice of the history is empty or absolute, whatever
\* registerOperation, recordBug, recordNotice, moveBug, moveNotice and the
\* compression completions have committed.
C17_ImageUrlsAreAbsolute ==
    \A i \in DOMAIN history :
        /\ history[i].operation.imageFilePath # NoImage
              => history[i].operation.imageFilePath.absolute
        /\ \A kind \in Kinds : \A n \in DOMAIN NotesOf(history[i], kind) :
              NotesOf(history[i], kind)[n].image # NoImage
                  => NotesOf(history[i], kind)[n].image.absolute

\* The operations of a history, in its order.
OperationsOf(h) == [i \in DOMAIN h |-> h[i].operation]

Grown(old, new) ==
    /\ Len(new) >= Len(old)
    /\ \A i \in DOMAIN old : \E j \in DOMAIN new :
          /\ new[j].screenDef = old[i].screenDef
          /\ old[i].screenElements \subseteq new[j].screenElements

\* C20: coverage sources are never removed individually.  A step changes
\* the coverage sources only when registerOperation's reply adds to them,
\* every source staying with at least its elements, or when resetHistory
\* empties them together with the history, or when resume replaces them
\* with the sources of the resumed test result: one source per screen of
\* the resumed history, holding what its operations on that screen gave.
C20_CoverageSourcesOnlyGrow ==
    [][ coverageSources' # coverageSources =>
          \/ /\ registering' # registering
             /\ Grown(coverageSources, coverageSources')
          \/ /\ coverageSources' = <<>>
             /\ history' = <<>>
             /\ testResultInfo' = 0
          \/ /\ updating' = "resumed"
             /\ updating # "resumed"
             /\ \A i \in DOMAIN history' :
                   \E j \in DOMAIN coverageSources' :
                      /\ coverageSources'[j].screenDef
                            = history'[i].operation.screenDef
                      /\ coverageSources'[j].screenElements
                            = {k \in DOMAIN history' :
                                  history'[k].operation.screenDef
                                      = history'[i].operation.screenDef}
             /\ \A j \in DOMAIN coverageSources' :
                   \E i \in DOMAIN history' :
                      coverageSources'[j].screenDef
                          = history'[i].operation.screenDef
      ]_vars

\* resume has replaced the coverage sources two operations gave by the
\* sources of another test result, which has no operation.
C20_Witness ==
    /\ updating = "resumed"
    /\ coverageSources = <<>>
    /\ testResultInfo \in TestResults
    /\ beOps[testResultInfo] = <<>>
    /\ \E t \in TestResults : Len(beOps[t]) = 2

(***************************************************************************)
(* C21.  Bugs and notices of a step are a list in attachment order.  With  *)
(* one call in flight at a time, a returned addBug / addNotice on a step   *)
(* whose list was L leaves that list as L followed by the new note id,     *)
(* every other list as it was, and returns the index Len(L), the position  *)
(* of the new note.  editBug / editNotice changes no list and returns the  *)
(* index and the sequence it was given.                                    *)
(***************************************************************************)
C21_AddAppendsEditKeeps ==
    /\ (pc = "done" /\ op.name = "addNote")
       => LET L == Field(pre[op.sequence], op.kind)
              list == Field(steps[op.sequence], op.kind)
          IN /\ reply.succeeded
             /\ list = L \o <<op.noteId>>
             /\ op.noteId \notin Range(L)
             /\ reply.index = Len(L)
             /\ At(list, reply.index) = op.noteId
             /\ \A s \in Sequences1, k \in Kinds :
                    (s # op.sequence \/ k # op.kind)
                    => Field(steps[s], k) = Field(pre[s], k)
             /\ \A s \in Sequences1 : steps[s].intention = pre[s].intention
    /\ (\/ pc = "edit_put"
        \/ pc = "done" /\ op.name = "editNote"
        \/ pc = "move_get_from" /\ reply.succeeded)
       => steps = pre
    /\ (\/ pc = "done" /\ op.name = "editNote"
        \/ pc = "move_get_from" /\ reply.succeeded)
       => /\ reply.index = op.index
          /\ reply.sequence = op.sequence

\* A note added to a list that already holds two notes.
C21_Witness ==
    /\ pc = "done"
    /\ op.name = "addNote"
    /\ reply.succeeded
    /\ Len(Field(pre[op.sequence], op.kind)) >= 2
    /\ reply.index = 2

(***************************************************************************)
(* C22.  Recorded notes carry their server-assigned id: every note the     *)
(* store holds after an add or an edit has the id the backend gave it, and *)
(* every compressNoteImage that recordBug / recordNotice has set a timer   *)
(* for, or has requested, names the id of a note, never an undefined id.   *)
(***************************************************************************)
C22_RecordedNotesCarryTheirId ==
    /\ \A i \in DOMAIN history : \A kind \in Kinds :
           \A n \in DOMAIN NotesOf(history[i], kind) :
               LET note == NotesOf(history[i], kind)[n] IN
               /\ note.id # Undefined
               /\ note.id = note.ref
    /\ \A task \in timers :
           task.kind # "step" => task.noteId # Undefined

\* The screen each window shows after the first n operations of a history:
\* the set of <<window handle, screen>> pairs, a window without operation
\* having no pair.
RECURSIVE CurrentScreens(_, _)
CurrentScreens(h, n) ==
    IF n = 0 THEN {}
    ELSE {p \in CurrentScreens(h, n - 1) :
             p[1] # h[n].operation.windowHandle}
         \cup {<<h[n].operation.windowHandle, h[n].operation.screenDef>>}

\* The history Login, Home, Home on one window, rebuilt.
LoginHomeHome ==
    /\ updating = "none"
    /\ models # NoModels
    /\ Len(history) = 3
    /\ \A i \in DOMAIN history :
           /\ history[i].operation.windowHandle = "w1"
           /\ history[i].operation.sequence = i
    /\ [i \in DOMAIN history |-> history[i].operation.screenDef]
           = <<"Login", "Home", "Home">>

\* The rebuilt screen history follows the operation list: one record per
\* operation, in order, whose source is the current screen of its window,
\* and a transition record exactly for the records whose source differs
\* from the operation's screen.
EmissionFollowsCurrentScreen ==
    (updating = "none" /\ models # NoModels)
    => /\ screenHistory = CreateFromOperationHistory(history)
       /\ Len(screenHistory) = Len(history)
       /\ \A i \in DOMAIN screenHistory :
              LET e == screenHistory[i]
                  before == CurrentScreens(history, i - 1)
                  current == {p \in before : p[1] = e.windowHandle}
                  emitted == \E k \in DOMAIN ScreenTransitions(screenHistory) :
                                 ScreenTransitions(screenHistory)[k].sequence
                                     = e.sequence
              IN  /\ e.sequence = history[i].operation.sequence
                  /\ e.screenDef = history[i].operation.screenDef
                  /\ e.sourceScreenDef = "" <=> current = {}
                  /\ current # {} => current = {<<e.windowHandle,
                                                  e.sourceScreenDef>>}
                  /\ emitted <=> (current # {<<e.windowHandle, e.screenDef>>})
       /\ \A k \in DOMAIN models.screenTransitionDiagramGraphs :
              LET entry == models.screenTransitionDiagramGraphs[k] IN
              entry.graph.transitions
                  = SelectSeq(ScreenTransitions(screenHistory),
                              LAMBDA t : t.windowHandle = entry.windowHandle)

FindHistoryItem(h, sequence) ==
    IF \E i \in DOMAIN h : h[i].operation.sequence = sequence
    THEN CHOOSE i \in DOMAIN h :
             /\ h[i].operation.sequence = sequence
             /\ \A m \in 1 .. (i - 1) : h[m].operation.sequence # sequence
    ELSE 0

\* A slip in the selection: the operation is selected without its screen.
SelectOperation_WithoutScreen(selected, sequence) ==
    [selected EXCEPT !.selectedOperationSequence = sequence]

\* selectOperation of updateScreenHistory: the operation is selected, and
\* its screen when the history holds the operation.
SelectOperation(selected, sequence) ==
    LET item == FindHistoryItem(history, sequence)
    IN  [selected EXCEPT
            !.selectedOperationSequence = sequence,
            !.selectedScreenDef =
                IF item = 0 THEN @ ELSE history[item].operation.screenDef]

\* The intention in force at position i of a screen history: the reference
\* of the last intention recorded up to there, Undefined when none.
IntentionAt(sh, i) ==
    LET marked == {k \in 1 .. i : sh[k].intention # NoNote}
    IN  IF marked = {} THEN Undefined
        ELSE sh[CHOOSE k \in marked : \A m \in marked : m <= k].intention.ref

\* Getter getSelectedScreenTransitions: the transition records of the
\* screen history that go from the source to the target of the selected
\* screen transition, grouped by intention, the groups in the order in
\* which their intentions first appear.  Nothing when no screen transition
\* is selected.
GetSelectedScreenTransitions(sh, screenTransition) ==
    IF screenTransition = <<>> THEN <<>>
    ELSE
    LET matching ==
            SelectSeq([i \in DOMAIN sh |-> i],
                      LAMBDA i :
                          /\ EmitsTransition(sh[i])
                          /\ sh[i].sourceScreenDef
                                 = screenTransition[1].source
                          /\ sh[i].screenDef = screenTransition[1].target)
        labels == FilterFirst([k \in DOMAIN matching |->
                                  IntentionAt(sh, matching[k])], 0)
        Of(label) ==
            SelectSeq(matching, LAMBDA i : IntentionAt(sh, i) = label)
    IN  [g \in DOMAIN labels |->
            [ intention |-> labels[g],
              transitions |->
                  [k \in DOMAIN Of(labels[g]) |->
                      [ sequence |-> sh[Of(labels[g])[k]].sequence,
                        sourceScreenDef |-> screenTransition[1].source,
                        targetScreenDef |-> screenTransition[1].target ]] ]]

\* InputValueTable.registerScreenTransitionToIntentions: the transitions
\* are added under the intention, a new intention coming last.
RegisterScreenTransitionToIntentions(table, intention, transitions) ==
    IF \E g \in DOMAIN table : table[g].intention = intention
    THEN [g \in DOMAIN table |->
             IF table[g].intention = intention
             THEN [table[g] EXCEPT !.transitions = @ \o transitions]
             ELSE table[g]]
    ELSE Append(table, [intention |-> intention,
                        transitions |-> transitions])

\* A slip in the loop: it starts from the table the store holds.
RECURSIVE RegisteredTable_CarriedOver(_, _)
RegisteredTable_CarriedOver(groups, k) ==
    IF k = 0
    THEN IF selection.inputValueTable = 0 THEN <<>>
         ELSE selection.tables[selection.inputValueTable]
    ELSE RegisterScreenTransitionToIntentions(
             RegisteredTable_CarriedOver(groups, k - 1),
             groups[k].intention, groups[k].transitions)

\* The loop of selectScreenTransition over the first k selected groups,
\* starting from new InputValueTable().
RECURSIVE RegisteredTable(_, _)
RegisteredTable(groups, k) ==
    IF k = 0 THEN <<>>
    ELSE RegisterScreenTransitionToIntentions(
             RegisteredTable(groups, k - 1),
             groups[k].intention, groups[k].transitions)

\* selectScreenTransition of updateScreenHistory: the screen transition is
\* selected (<<>>: null), a new table is filled with the selected
\* transitions and committed.
SelectScreenTransition(selected, screenTransition) ==
    LET groups == GetSelectedScreenTransitions(screenHistory,
                                               screenTransition)
        table == RegisteredTable(groups, Len(groups))
    IN  [selected EXCEPT
            !.selectedScreenTransition = screenTransition,
            !.tables = Append(@, table),
            !.inputValueTable = Len(selected.tables) + 1]

\* A slip in the filter: the first operation is selected, not the last.
FilterOperation_SelectsFirst(selected, sequences) ==
    [selected EXCEPT
        !.displayedOperations = sequences,
        !.selectedOperationSequence =
            IF Len(sequences) > 0 THEN sequences[1] ELSE @]

\* filterOperation of updateScreenHistory: the operations are displayed,
\* and the last one is selected when there is one.
FilterOperation(selected, sequences) ==
    [selected EXCEPT
        !.displayedOperations = sequences,
        !.selectedOperationSequence =
            IF Len(sequences) > 0 THEN sequences[Len(sequences)] ELSE @]

\* What a click leaves alone.
ClickFrame == UNCHANGED <<noteVars, genVars, storeVars, buildVars, calls,
                          access, urls, projects, inputElementInfos, isResuming>>

\* The edges a sequence diagram can be clicked on: each carries a run of
\* consecutive records of the screen history, or none.
SequenceDiagramEdges ==
    {<<>>} \cup
    {[k \in 1 .. (j - i + 1) |-> screenHistory[i + k - 1].sequence] :
        i \in DOMAIN screenHistory, j \in DOMAIN screenHistory}

\* The notes a sequence diagram can be clicked on; type "" is no note.
SequenceDiagramNotes ==
    {[type |-> t, sequence |-> screenHistory[i].sequence] :
        t \in {"bug", "notice", "intention", ""}, i \in DOMAIN screenHistory}

\* The edges a screen transition diagram can be clicked on: one per pair of
\* different screens, with the operations of the transitions between the
\* two, which may be none.
ScreenTransitionDiagramEdges(graph) ==
    {[ source |-> p[1], target |-> p[2],
       operationHistory |->
           LET own == SelectSeq(graph.transitions,
                                LAMBDA t : /\ t.sourceScreenDef = p[1]
                                           /\ t.targetScreenDef = p[2])
           IN  [k \in DOMAIN own |-> own[k].sequence] ] :
        p \in {q \in (ScreenDefs \cup {""}) \X ScreenDefs : q[1] # q[2]}}

SequenceDiagramShown ==
    updating = "none" /\ models.sequenceDiagramGraph # <<>>

\* Sequence diagram, onClickEdge.
ClickSequenceDiagramEdge(operationHistory) ==
    /\ SequenceDiagramShown
    /\ selection' = FilterOperation(selection, operationHistory)
    /\ clicked' = [NoClick EXCEPT !.diagram = "sequence", !.on = "edge",
                                  !.operationHistory = operationHistory]
    /\ ClickFrame

\* Sequence diagram, onClickScreenRect.
ClickSequenceDiagramScreenRect(sequence) ==
    /\ SequenceDiagramShown
    /\ selection' = SelectOperation(selection, sequence)
    /\ clicked' = [NoClick EXCEPT !.diagram = "sequence", !.on = "rect",
                                  !.sequence = sequence]
    /\ ClickFrame

\* Sequence diagram, onClickNote.
ClickSequenceDiagramNote(note) ==
    /\ SequenceDiagramShown
    /\ selection' = IF note.type = "notice" \/ note.type = "bug"
                    THEN FilterOperation(selection, <<note.sequence>>)
                    ELSE selection
    /\ clicked' = [NoClick EXCEPT !.diagram = "sequence", !.on = "note",
                                  !.sequence = note.sequence,
                                  !.type = note.type]
    /\ ClickFrame

\* Screen transition diagram, onClickEdge.
ClickScreenTransitionDiagramEdge(edge) ==
    /\ updating = "none"
    /\ selection' =
           IF edge.operationHistory = <<>> THEN selection
           ELSE SelectScreenTransition(
                    SelectOperation(selection, edge.operationHistory[1]),
                    <<[source |-> edge.source, target |-> edge.target]>>)
    /\ clicked' = [NoClick EXCEPT !.diagram = "transition", !.on = "edge",
                                  !.operationHistory = edge.operationHistory,
                                  !.source = edge.source,
                                  !.target = edge.target]
    /\ ClickFrame

\* Screen transition diagram, onClickScreenRect.
ClickScreenTransitionDiagramScreenRect(sequence) ==
    /\ updating = "none"
    /\ models.screenTransitionDiagramGraphs # <<>>
    /\ selection' = SelectScreenTransition(
                        SelectOperation(selection, sequence), <<>>)
    /\ clicked' = [NoClick EXCEPT !.diagram = "transition", !.on = "rect",
                                  !.sequence = sequence]
    /\ ClickFrame

\* The store after up to MaxOps operations of one or two windows were
\* registered.
InitSelect ==
    /\ InitWindows
    /\ Len(history) <= MaxOps
    /\ \A i \in DOMAIN history :
           history[i].operation.windowHandle \in {"w1", "w2"}

FilterNext ==
    \/ UpdateScreenHistory
    \/ UpdateScreenHistoryEnds
    \/ \E operationHistory \in SequenceDiagramEdges :
          ClickSequenceDiagramEdge(operationHistory)
    \/ \E i \in DOMAIN screenHistory :
          ClickSequenceDiagramScreenRect(screenHistory[i].sequence)
    \/ \E note \in SequenceDiagramNotes : ClickSequenceDiagramNote(note)

SpecFilter == InitSelect /\ [][FilterNext]_vars

\* Intentions are recorded, then the diagrams are built, then they are
\* clicked on.
SelectNext ==
    \/ \E sequence \in Sequences1 :
          /\ nextId <= MaxEdited
          /\ models = NoModels
          /\ IntentionRecorded(sequence)
    \/ models = NoModels /\ UpdateScreenHistory
    \/ UpdateScreenHistoryEnds
    \/ \E k \in DOMAIN models.screenTransitionDiagramGraphs :
          \E edge \in ScreenTransitionDiagramEdges(
                          models.screenTransitionDiagramGraphs[k].graph) :
              /\ Len(selection.tables) < MaxClicks
              /\ ClickScreenTransitionDiagramEdge(edge)
    \/ \E i \in DOMAIN screenHistory :
          /\ Len(selection.tables) < MaxClicks
          /\ ClickScreenTransitionDiagramScreenRect(screenHistory[i].sequence)

SpecSelect == InitSelect /\ [][SelectNext]_vars

(***************************************************************************)
(* C25.  The input value table is built fresh on every selection.  Every   *)
(* click on a screen transition diagram that changes the selection commits *)
(* a table created by that click: the store then holds the newest table,   *)
(* whose groups are exactly the groups of transitions selected for the     *)
(* screen transition that is now selected, in the order returned, every    *)
(* transition in it being one of that screen transition, and empty when no *)
(* screen transition is selected.  No step modifies a table committed      *)
(* before.                                                                 *)
(***************************************************************************)
C25_TableIsBuiltFreshPerSelection ==
    [][ /\ \A i \in DOMAIN selection.tables :
               /\ i \in DOMAIN selection'.tables
               /\ selection'.tables[i] = selection.tables[i]
        /\ selection' # selection
           => LET n == Len(selection.tables) + 1
                  chosen == selection'.selectedScreenTransition
                  groups == GetSelectedScreenTransitions(screenHistory,
                                                         chosen)
              IN  /\ Len(selection'.tables) = n
                  /\ selection'.inputValueTable = n
                  /\ Len(selection'.tables[n]) = Len(groups)
                  /\ \A g \in DOMAIN groups :
                         /\ selection'.tables[n][g].intention
                                = groups[g].intention
                         /\ selection'.tables[n][g].transitions
                                = groups[g].transitions
                         /\ \A h \in DOMAIN groups :
                                groups[h].intention = groups[g].intention
                                    => h = g
                  /\ \A g \in DOMAIN selection'.tables[n] :
                         \A k \in DOMAIN selection'.tables[n][g].transitions :
                             LET t == selection'.tables[n][g].transitions[k]
                             IN  /\ chosen # <<>>
                                 /\ t.sourceScreenDef = chosen[1].source
                                 /\ t.targetScreenDef = chosen[1].target
      ]_vars

\* Two tables were built: the first, for a screen transition, holds two
\* groups, one per intention; the second, for no screen transition, holds
\* nothing.
C25_Witness ==
    /\ Len(selection.tables) = 2
    /\ selection.inputValueTable = 2
    /\ Len(selection.tables[1]) = 2
    /\ selection.tables[2] = <<>>
    /\ selection.selectedScreenTransition = <<>>

(***************************************************************************)
(* C26.  A click on an edge of the sequence diagram filters the operation  *)
(* list by that edge: the displayed operations become the sequence numbers *)
(* of the operations the edge carries, in the edge's order; the selected   *)
(* operation becomes the last of them when there is one and stays as it is *)
(* when there is none.  A click on a note filters to the note's sequence   *)
(* number when the note is a bug or a notice, and changes nothing when it  *)
(* is not.  Nothing else of the selection changes.                         *)
(***************************************************************************)
C26_EdgeClickFiltersOperations ==
    [][ ( /\ clicked' # clicked \/ selection' # selection
          /\ clicked'.diagram = "sequence"
          /\ clicked'.on \in {"edge", "note"} )
        => LET filters == \/ clicked'.on = "edge"
                          \/ clicked'.type \in {"bug", "notice"}
               shown == IF clicked'.on = "edge"
                        THEN clicked'.operationHistory
                        ELSE <<clicked'.sequence>>
           IN  IF filters
               THEN /\ selection'.displayedOperations = shown
                    /\ selection'.selectedOperationSequence =
                           IF shown # <<>> THEN shown[Len(shown)]
                           ELSE selection.selectedOperationSequence
                    /\ selection'.selectedScreenDef
                           = selection.selectedScreenDef
                    /\ selection'.selectedScreenTransition
                           = selection.selectedScreenTransition
                    /\ selection'.inputValueTable = selection.inputValueTable
                    /\ selection'.tables = selection.tables
               ELSE selection' = selection
      ]_vars

\* An edge carrying two operations was clicked: both are displayed and the
\* second is selected.
C26_Witness ==
    /\ clicked.diagram = "sequence"
    /\ clicked.on = "edge"
    /\ Len(clicked.operationHistory) = 2
    /\ selection.displayedOperations = clicked.operationHistory
    /\ selection.selectedOperationSequence = clicked.operationHistory[2]
    /\ clicked.operationHistory[1] # clicked.operationHistory[2]

(***************************************************************************)
(* C27.  Selection by a click on a screen transition diagram.  A click on  *)
(* an edge that carries at least one operation selects the edge's first    *)
(* operation and the screen of that operation, then selects the screen     *)
(* transition from the edge's source to its target and commits a rebuilt   *)
(* input value table.  A click on an edge that carries no operation        *)
(* changes no state.  A click on a screen rectangle selects the operation  *)
(* and its screen, and sets the selected screen transition to null.        *)
(***************************************************************************)
C27_TransitionClickSelects ==
    [][ ( /\ clicked' # clicked \/ selection' # selection
          /\ clicked'.diagram = "transition" )
        => LET edge == clicked'
               ScreenOf(sequence) ==
                   history[FindHistoryItem(history, sequence)]
                       .operation.screenDef
               rebuilt ==
                   /\ Len(selection'.tables) = Len(selection.tables) + 1
                   /\ selection'.inputValueTable = Len(selection'.tables)
                   /\ selection'.displayedOperations
                          = selection.displayedOperations
           IN  IF edge.on = "edge" /\ edge.operationHistory = <<>>
               THEN /\ selection' = selection
                    /\ UNCHANGED <<noteVars, genVars, storeVars, buildVars,
                                   calls, access>>
               ELSE IF edge.on = "edge"
               THEN /\ selection'.selectedOperationSequence
                           = edge.operationHistory[1]
                    /\ selection'.selectedScreenDef
                           = ScreenOf(edge.operationHistory[1])
                    /\ selection'.selectedScreenTransition
                           = <<[source |-> edge.source,
                                target |-> edge.target]>>
                    /\ rebuilt
               ELSE /\ selection'.selectedOperationSequence = edge.sequence
                    /\ selection'.selectedScreenDef = ScreenOf(edge.sequence)
                    /\ selection'.selectedScreenTransition = <<>>
                    /\ rebuilt
      ]_vars

\* After a click on a screen rectangle, the edge from Login to Home was
\* clicked: its operation, the screen Home and the transition are selected
\* and a second table is committed.
C27_Witness ==
    /\ clicked.diagram = "transition"
    /\ clicked.on = "edge"
    /\ clicked.source = "Login"
    /\ clicked.target = "Home"
    /\ selection.selectedOperationSequence = 2
    /\ selection.selectedScreenDef = "Home"
    /\ selection.selectedScreenTransition
           = <<[source |-> "Login", target |-> "Home"]>>
    /\ selection.inputValueTable = 2
    /\ selection.tables[1] = <<>>
    /\ selection.tables[2] # <<>>

(* ---------------------------------------------------------------------- *)
(* SpecResolve: an image URL from the backend's reply to the generated    *)
(* script.  The dispatcher's service URL is set; the store keeps the      *)
(* image URL of a reply resolved against it; generateTestScripts hands    *)
(* the stored URL to its imageUrlResolver.                                *)
(* ---------------------------------------------------------------------- *)

\* The values the service URL is set to: the origin alone, with a trailing
\* slash, with a path, and with a path and a trailing slash.
ServiceUrls ==
    { <<Origin>>, <<Origin, "/">>, <<Origin, "/", "latteart">>,
      <<Origin, "/", "latteart", "/">> }

\* The image URLs the backend returns: relative, under test-results/.
ImageFileUrls ==
    {<<"test-results", "/", r, "/", f>> :
        r \in {"r1", "r2"}, f \in {"1.png", "2.png", "3.png"}}

\* The path of a URL with its last segment removed: up to its last "/".
RECURSIVE Directory(_)
Directory(path) ==
    IF path = <<>> \/ path[Len(path)] = "/" THEN path
    ELSE Directory(SubSeq(path, 1, Len(path) - 1))

\* new URL(url, base).toString() for a relative url without leading slash:
\* the origin of the base, the directory of its path ("/" for an empty
\* path), and the url.
NewURL(url, base) ==
    LET path == IF Len(base) = 1 THEN <<"/">> ELSE Tail(base)
    IN  <<base[1]>> \o Directory(path) \o url

\* `${serviceUrl}/${imageFileUrl}`
Concatenated(url, base) == base \o <<"/">> \o url

\* Does the pattern occur in the URL at position i?
OccursAt(url, pattern, i) ==
    /\ i + Len(pattern) - 1 <= Len(url)
    /\ SubSeq(url, i, i + Len(pattern) - 1) = pattern

Contains(url, pattern) == \E i \in 1 .. Len(url) : OccursAt(url, pattern, i)

StartsWith(url, pattern) == OccursAt(url, pattern, 1)

\* url.replace(pattern, ""): the first occurrence of the pattern is
\* removed, a URL without occurrence is returned as it is.
Replace(url, pattern) ==
    IF ~Contains(url, pattern) THEN url
    ELSE LET i == CHOOSE k \in 1 .. Len(url) :
                      /\ OccursAt(url, pattern, k)
                      /\ \A m \in 1 .. (k - 1) : ~OccursAt(url, pattern, m)
         IN  SubSeq(url, 1, i - 1)
                 \o SubSeq(url, i + Len(pattern), Len(url))

\* `${serviceUrl}/test-results/`
ResolverPattern(serviceUrl) == serviceUrl \o <<"/", "test-results", "/">>

\* imageUrlResolver of generateTestScripts.
ImageUrlResolver(url, serviceUrl) ==
    Replace(url, ResolverPattern(serviceUrl))

UrlsFrame ==
    UNCHANGED <<noteVars, genVars, storeVars, buildVars, calls, access,
                selection, clicked, inputElementInfos, isResuming,
                projects>>

\* set serviceUrl(value)
SetServiceUrl(value) ==
    /\ urls.phase = "idle"
    /\ urls' = [NoUrls EXCEPT !.serviceUrl = value]
    /\ UrlsFrame

\* registerOperation's reply (addBug, moveBug, resume alike): the image URL
\* is stored as new URL(imageFileUrl, serviceUrl).toString().
OperationImageStored(imageFileUrl) ==
    /\ urls.phase = "idle"
    /\ urls' = [urls EXCEPT !.phase = "stored",
                            !.imageFileUrl = imageFileUrl,
                            !.stored = NewURL(imageFileUrl, urls.serviceUrl),
                            !.resolved = <<>>]
    /\ UrlsFrame

\* The completion of a test step's compression: the image URL is stored as
\* `${serviceUrl}/${imageFileUrl}`.
CompressedImageStored(imageFileUrl) ==
    /\ urls.phase = "idle"
    /\ urls' = [urls EXCEPT !.phase = "stored",
                            !.imageFileUrl = imageFileUrl,
                            !.stored = Concatenated(imageFileUrl,
                                                    urls.serviceUrl),
                            !.resolved = <<>>]
    /\ UrlsFrame

\* The completion of a note's compression: the image URL is stored as the
\* backend returned it.
NoteImageStored(imageFileUrl) ==
    /\ urls.phase = "idle"
    /\ urls' = [urls EXCEPT !.phase = "stored",
                            !.imageFileUrl = imageFileUrl,
                            !.stored = imageFileUrl,
                            !.resolved = <<>>]
    /\ UrlsFrame

\* generateTestScripts: the generator passes the stored URL through the
\* imageUrlResolver.
ImageUrlResolved ==
    /\ urls.phase = "stored"
    /\ urls' = [urls EXCEPT !.phase = "resolved",
                            !.resolved = ImageUrlResolver(urls.stored,
                                                          urls.serviceUrl)]
    /\ UrlsFrame

\* The next image URL.
ImageUrlDone ==
    /\ urls.phase = "resolved"
    /\ urls' = [NoUrls EXCEPT !.serviceUrl = urls.serviceUrl]
    /\ UrlsFrame

ResolveNext ==
    \/ \E value \in ServiceUrls : SetServiceUrl(value)
    \/ \E imageFileUrl \in ImageFileUrls : OperationImageStored(imageFileUrl)
    \/ \E imageFileUrl \in ImageFileUrls : CompressedImageStored(imageFileUrl)
    \/ \E imageFileUrl \in ImageFileUrls : NoteImageStored(imageFileUrl)
    \/ ImageUrlResolved
    \/ ImageUrlDone

SpecResolve == Init /\ [][ResolveNext]_vars

(***************************************************************************)
(* C28.  Image URL rewriting inverts resolution.  For every relative image *)
(* URL the backend returns under test-results/, the URL stored after       *)
(* resolution against the service URL, passed through the imageUrlResolver *)
(* of generateTestScripts, no longer contains the service URL; and a URL   *)
(* that does not start with <serviceUrl>/test-results/ comes back from the *)
(* resolver unchanged.                                                     *)
(***************************************************************************)
C28_ResolverInvertsResolution ==
    urls.phase = "resolved"
    => /\ urls.stored = NewURL(urls.imageFileUrl, urls.serviceUrl)
          => ~Contains(urls.resolved, urls.serviceUrl)
       /\ ~StartsWith(urls.stored, ResolverPattern(urls.serviceUrl))
          => urls.resolved = urls.stored

(* ---------------------------------------------------------------------- *)
(* SpecFailure: the note actions of the store when the repository call    *)
(* fails.  Every method of the dispatcher catches the error and returns   *)
(* { succeeded: false, error }, a reply without data; the backend is left *)
(* as it was.  The store action goes on with reply.data! = undefined.     *)
(* ---------------------------------------------------------------------- *)

FailureFrame ==
    UNCHANGED <<imageCompression, testResultInfo, screenHistory,
                windowHandles, screenHistoryIsUpdating, updating,
                resultCount, beOps, noteImages, registering, timers,
                noteVars, genVars, modelVars>>

ActionName(verb, kind) ==
    IF kind = "bug" THEN verb \o "Bug" ELSE verb \o "Notice"

\* moveBug / moveNotice with a failed reply: movedNote is undefined;
\* deleteBug / deleteNotice is committed with payload.from; setBug /
\* setNotice is committed with undefined and throws on reading the note.
MoveNoteFails(kind, from, index, dest) ==
    /\ IsRecordedStep(from)
    /\ IsRecordedStep(dest)
    /\ history' = DeleteNote(history, kind, from, index)
    /\ Rejects(ActionName("move", kind))
    /\ UNCHANGED canUpdateModels
    /\ FailureFrame

\* deleteBug / deleteNotice with a failed reply: destructuring reply.data!
\* throws before any commit.
DeleteNoteFails(kind, sequence, index) ==
    /\ IsRecordedStep(sequence)
    /\ Rejects(ActionName("delete", kind))
    /\ UNCHANGED <<history, canUpdateModels>>
    /\ FailureFrame

\* deleteIntention with a failed reply: the mutation is committed with
\* { sequence: undefined }, which is the sequence number of no operation;
\* then the models may be rebuilt.
DeleteIntentionFails(sequence) ==
    /\ IsRecordedStep(sequence)
    /\ history' = WithIntention(history, Undefined, NoNote)
    /\ SetCanUpdateModels
    /\ UNCHANGED rejected
    /\ FailureFrame

\* recordBug / recordNotice with a failed reply, add path or edit path:
\* recordedNote is undefined; setBug / setNotice is committed with
\* undefined and throws on reading the note; no timer is set.
RecordNoteFails(kind, sequence) ==
    /\ IsRecordedStep(sequence)
    /\ Rejects(ActionName("record", kind))
    /\ UNCHANGED <<history, canUpdateModels>>
    /\ FailureFrame

\* A note action of the store gets a failed reply.
NoteActionFails ==
    \/ \E kind \in Kinds, from \in Sequences1, index \in Indexes,
          dest \in Sequences1 : MoveNoteFails(kind, from, index, dest)
    \/ \E kind \in Kinds, sequence \in Sequences1, index \in Indexes :
          DeleteNoteFails(kind, sequence, index)
    \/ \E sequence \in Sequences1 : DeleteIntentionFails(sequence)
    \/ \E kind \in Kinds, sequence \in Sequences1 :
          RecordNoteFails(kind, sequence)

FailureNext ==
    \/ RegisterOperation("w1", "Login", FALSE)
    \/ RegisterOperationReply
    \/ \E kind \in Kinds, sequence \in Sequences1 :
          RecordNote(kind, sequence, FALSE)
    \/ \E sequence \in Sequences1 : IntentionRecorded(sequence)
    \/ \E kind \in Kinds, from \in Sequences1, index \in Indexes,
          dest \in Sequences1 : MoveNoteFails(kind, from, index, dest)
    \/ \E kind \in Kinds, sequence \in Sequences1, index \in Indexes :
          DeleteNoteFails(kind, sequence, index)
    \/ \E sequence \in Sequences1 : DeleteIntentionFails(sequence)
    \/ \E kind \in Kinds, sequence \in Sequences1 :
          RecordNoteFails(kind, sequence)

SpecFailure == InitCreated /\ [][FailureNext]_vars

\* The notes of every entry of the history: bugs, notices and intention.
NotesOfHistory(h) ==
    [i \in DOMAIN h |->
        [bugs |-> h[i].bugs, notices |-> h[i].notices,
         intention |-> h[i].intention]]

(***************************************************************************)
(* C29.  The store is unchanged when a note mutation fails in the backend: *)
(* when the reply of moveBug, moveNotice, deleteBug, deleteNotice,         *)
(* deleteIntention, recordBug or recordNotice is a failure, the store      *)
(* action commits none of deleteBug, deleteNotice, deleteIntention,        *)
(* setBug, setNotice, so the notes of every step in the store's history    *)
(* are the same after the action as before it.                             *)
(***************************************************************************)
C29_FailedNoteActionKeepsStore ==
    [][NoteActionFails => NotesOfHistory(history') = NotesOfHistory(history)]_vars

(***************************************************************************)
(* C30.  saveIntention completes only after its effect: once the promise   *)
(* of the saveIntention action has resolved, the record of the intention   *)
(* has finished in the backend and setIntention has been committed, so the *)
(* step has its intention in the backend and in the store's history.       *)
(***************************************************************************)
C30_ResolvedSaveIntentionHasItsEffect ==
    \A call \in calls :
        call.action = "saveIntention" /\ ~call.pending
        => /\ steps[call.sequence].intention # Undefined
           /\ \A i \in DOMAIN history :
                 history[i].operation.sequence = call.sequence
                 => history[i].intention # NoNote

(* ---------------------------------------------------------------------- *)
(* SpecAgree: the note actions of one test result, dispatched one after   *)
(* the other and all successful, with the backend's lists and the store's *)
(* history side by side.                                                  *)
(* ---------------------------------------------------------------------- *)

AgreeNext ==
    \/ RegisterOperation("w1", "Login", FALSE)
    \/ RegisterOperationReply
    \/ \E kind \in Kinds, sequence \in Sequences1 :
          RecordNote(kind, sequence, FALSE)
    \/ \E kind \in Kinds, sequence \in Sequences1, index \in Indexes :
          RecordEditedNote(kind, sequence, index, FALSE)
    \/ \E kind \in Kinds, from \in Sequences1, index \in Indexes,
          dest \in Sequences1 : MoveNoteCommitted(kind, from, index, dest)
    \/ \E kind \in Kinds, sequence \in Sequences1, index \in Indexes :
          DeleteNoteCommitted(kind, sequence, index)

SpecAgree == InitCreated /\ [][AgreeNext]_vars

\* The backend notes the store's list stands for, in the list's order.
Refs(list) == [n \in DOMAIN list |-> list[n].ref]

(***************************************************************************)
(* C31.  Store and backend agree on notes: after any sequence of           *)
(* serialized, successful saveBug, saveNotice, moveBug, moveNotice,        *)
(* deleteBug and deleteNotice actions on a test result, the store's bug    *)
(* list and notice list of every test step hold the same notes at the same *)
(* indexes as the backend's lists of that step.                            *)
(***************************************************************************)
C31_StoreAndBackendAgree ==
    \A i \in DOMAIN history : \A kind \in Kinds :
        Refs(NotesOf(history[i], kind))
            = Field(steps[history[i].operation.sequence], kind)

\* A step holds two notes of a kind, the older one after the newer one: it
\* was moved there.
C31_Witness ==
    \E i \in DOMAIN history : \E kind \in Kinds :
        /\ Len(NotesOf(history[i], kind)) = 2
        /\ NotesOf(history[i], kind)[1].ref > NotesOf(history[i], kind)[2].ref

(* ---------------------------------------------------------------------- *)
(* SpecDelete: deleteBug, deleteNotice and deleteIntention of the         *)
(* dispatcher request by request: GET the step, DELETE the note, PATCH    *)
(* the step.  Any of the three requests may throw; the catch block        *)
(* returns the failure Reply.  kind selects the variant.                  *)
(* ---------------------------------------------------------------------- *)

DeleteRequestPcs == {"del_get", "del_delete", "del_patch"}

\* deleteBug / deleteNotice dispatched for a note of the step's list.
DeleteNoteRequested(kind, sequence, index) ==
    /\ pc = "idle"
    /\ IndexInList(kind, sequence, index)
    /\ op' = [NoOp EXCEPT !.name = "deleteNote", !.entry = "delete",
                          !.kind = kind, !.sequence = sequence,
                          !.index = index]
    /\ pc' = "del_get"
    /\ pre' = steps
    /\ UNCHANGED <<steps, noteStore, nextId, reply>>
    /\ NotesFrame

\* deleteIntention dispatched for a step that has an intention.
DeleteIntentionRequested(sequence) ==
    /\ pc = "idle"
    /\ steps[sequence].intention # Undefined
    /\ op' = [NoOp EXCEPT !.name = "deleteIntention", !.entry = "delete",
                          !.kind = "intention", !.sequence = sequence]
    /\ pc' = "del_get"
    /\ pre' = steps
    /\ UNCHANGED <<steps, noteStore, nextId, reply>>
    /\ NotesFrame

\* GET /test-steps/<sequence>: noteId = bugs[index], notices[index] or
\* intention.
DeleteGet ==
    /\ pc = "del_get"
    /\ op' = IF op.kind = "intention"
             THEN [op EXCEPT !.noteId = steps[op.sequence].intention]
             ELSE LET list == Field(steps[op.sequence], op.kind)
                  IN  [op EXCEPT !.fromList = list,
                                 !.noteId = At(list, op.index)]
    /\ pc' = "del_delete"
    /\ UNCHANGED <<steps, noteStore, nextId, reply, pre>>
    /\ NotesFrame

\* DELETE /notes/<noteId>: the note no longer exists.
DeleteDelete ==
    /\ pc = "del_delete"
    /\ op.noteId \in noteStore
    /\ noteStore' = noteStore \ {op.noteId}
    /\ pc' = "del_patch"
    /\ UNCHANGED <<steps, nextId, op, reply, pre>>
    /\ NotesFrame

\* PATCH /test-steps/<sequence>: the list without the entry at the index,
\* or intention: null; the call returns.
DeletePatch ==
    /\ pc = "del_patch"
    /\ steps' = IF op.kind = "intention"
                THEN PatchedIntention(op.sequence, Undefined)
                ELSE Patched(op.sequence, op.kind,
                             FilterOut(op.fromList, op.index))
    /\ reply' = [succeeded |-> TRUE, sequence |-> op.sequence,
                 index |-> op.index]
    /\ pc' = "done"
    /\ UNCHANGED <<noteStore, nextId, op, pre>>
    /\ NotesFrame

\* A request of the delete throws: the catch block returns
\* { succeeded: false }.
DeleteRequestFails ==
    /\ pc \in DeleteRequestPcs
    /\ reply' = NoReply
    /\ pc' = "failed"
    /\ UNCHANGED <<steps, noteStore, nextId, op, pre>>
    /\ NotesFrame

DeleteNext ==
    \/ \E kind \in Kinds, sequence \in Sequences1 : SaveNewNote(kind, sequence)
    \/ AddPost
    \/ AddGet
    \/ AddPatch
    \/ \E sequence \in Sequences1 : AddIntention(sequence)
    \/ IntentionPost
    \/ IntentionPatch
    \/ \E kind \in Kinds, sequence \in Sequences1, index \in Indexes :
          DeleteNoteRequested(kind, sequence, index)
    \/ \E sequence \in Sequences1 : DeleteIntentionRequested(sequence)
    \/ DeleteGet
    \/ DeleteDelete
    \/ DeletePatch
    \/ DeleteRequestFails
    \/ Return

SpecDelete == Init /\ [][DeleteNext]_vars

\* The notes the test steps reference.
LinkedNotes ==
    UNION {Range(steps[s].bugs) \cup Range(steps[s].notices)
               \cup ({steps[s].intention} \ {Undefined}) : s \in Sequences1}

(***************************************************************************)
(* C32.  Deleting a note never leaves a dangling link: after deleteBug,    *)
(* deleteNotice or deleteIntention has returned, with success or with a    *)
(* failure at any of its requests (GET step, DELETE note, PATCH step), no  *)
(* test step's bug list, notice list or intention references a note that   *)
(* has been deleted from the backend.                                      *)
(***************************************************************************)
C32_NoDanglingLinkAfterDelete ==
    (pc \in {"done", "failed"} /\ op.entry = "delete")
        => LinkedNotes \subseteq noteStore

(* ---------------------------------------------------------------------- *)
(* SpecLast: saveBug and saveNotice for a new note (oldSequence and       *)
(* oldIndex null) among createTestResult, registerOperation and           *)
(* resetHistory.  The note goes to the sequence number saveBug works out  *)
(* from the history.                                                      *)
(* ---------------------------------------------------------------------- *)

\* context.state.history[lastIndex]?.operation.sequence ?? 1
LastSequence(h) == IF h = <<>> THEN 1 ELSE h[Len(h)].operation.sequence

\* addBug / addNotice for a step the test result does not have: POST /notes
\* saves the note, GET /test-steps/<sequence> throws, the reply is a
\* failure; recordBug commits setBug with undefined and rejects.
RecordNoteForMissingStep(kind) ==
    /\ noteStore' = noteStore \cup {nextId}
    /\ nextId' = nextId + 1
    /\ Rejects(ActionName("record", kind))
    /\ UNCHANGED <<steps, pc, op, reply, pre>>
    /\ UNCHANGED <<imageCompression, testResultInfo, history,
                   canUpdateModels, screenHistory, windowHandles,
                   screenHistoryIsUpdating, updating, resultCount, beOps,
                   noteImages, registering, timers>>
    /\ UNCHANGED <<genVars, modelVars>>

\* saveBug / saveNotice with oldSequence null and oldIndex null: recordBug
\* / recordNotice on the add path for LastSequence(history).
SaveNoteForLast(kind) ==
    /\ testResultInfo = NotesResult
    /\ nextId <= MaxRecorded
    /\ IF IsRecordedStep(LastSequence(history))
       THEN RecordNote(kind, LastSequence(history), FALSE)
       ELSE RecordNoteForMissingStep(kind)

LastNext ==
    \/ CreateTestResult
    \/ \E windowHandle \in {"w1", "w2"}, screenDef \in ScreenDefs :
          RegisterOperation(windowHandle, screenDef, FALSE)
    \/ RegisterOperationReply
    \/ \E kind \in Kinds : SaveNoteForLast(kind)
    \/ ResetHistory

SpecLast == Init /\ [][LastNext]_vars

\* The notes the steps of the operations in the history reference.
NotesOfOperations ==
    UNION {Range(steps[history[i].operation.sequence].bugs)
               \cup Range(steps[history[i].operation.sequence].notices) :
           i \in DOMAIN history}

(***************************************************************************)
(* C33.  Every recorded note belongs to an existing operation: a new bug   *)
(* or notice saved without an explicit sequence is attached to the last    *)
(* operation of the history, so along the history the notes are in the     *)
(* order they were saved in; and after any sequence of registerOperation,  *)
(* saveBug, saveNotice and resetHistory every note of the current test     *)
(* result, in the store or saved in the backend, is the note of an         *)
(* operation present in the history, also when the history was empty at    *)
(* the time of saving.                                                     *)
(***************************************************************************)
C33_NotesBelongToOperations ==
    testResultInfo = NotesResult
    => /\ noteStore \subseteq NotesOfOperations
       /\ \A i \in DOMAIN history : \A j \in DOMAIN history :
             \A ki \in Kinds, kj \in Kinds :
                 \A m \in DOMAIN NotesOf(history[i], ki) :
                     \A n \in DOMAIN NotesOf(history[j], kj) :
                         i < j => NotesOf(history[i], ki)[m].ref
                                     < NotesOf(history[j], kj)[n].ref

(* ---------------------------------------------------------------------- *)
(* SpecRegister: registerOperation with its reply, its failure and the    *)
(* compression it schedules, for operations on both screens, with and     *)
(* without screenshot.                                                    *)
(* ---------------------------------------------------------------------- *)

RegisterNext ==
    \/ CreateTestResult
    \/ \E screenDef \in ScreenDefs, hasImage \in BOOLEAN :
          RegisterOperation("w1", screenDef, hasImage)
    \/ RegisterOperationReply
    \/ RegisterOperationFails
    \/ StepTimerFires
    \/ StepCompressionSucceeds
    \/ StepCompressionFails

SpecRegister == InitCompressing /\ [][RegisterNext]_vars

(***************************************************************************)
(* C34.  registerOperation appends exactly one entry.  When the call       *)
(* returns from a successful request, the history has one more entry, at   *)
(* its end, holding the operation the backend returned with no intention,  *)
(* no bugs and no notices; the earlier entries are unchanged and in place; *)
(* and the input element info is registered only when it has at least one  *)
(* input element.  When the request fails, history, coverage sources and   *)
(* input element infos are unchanged and no compression is scheduled.      *)
(***************************************************************************)
C34_RegisterOperationAppendsOneEntry ==
    [][(registering # {} /\ registering' = {}) =>
         IF beOps' # beOps
         THEN LET request == CHOOSE r \in registering : TRUE
                  t == request.testResult
                  s == Len(beOps'[t])
              IN  /\ Len(history') = Len(history) + 1
                  /\ SubSeq(history', 1, Len(history)) = history
                  /\ history'[Len(history')] =
                         [ operation |-> OperationOf(beOps'[t][s], t, s),
                           intention |-> NoNote, bugs |-> <<>>,
                           notices |-> <<>> ]
                  /\ inputElementInfos' =
                         IF InputElements(request.screenDef) = <<>>
                         THEN inputElementInfos
                         ELSE Append(inputElementInfos,
                                     [ sequence |-> s,
                                       inputElements |->
                                         InputElements(request.screenDef) ])
         ELSE UNCHANGED <<history, coverageSources, inputElementInfos,
                          timers>>]_vars

\* Two operations are in the history, one with an input element and one
\* without, and a registerOperation has failed.
C34_Witness ==
    /\ Len(history) = 2
    /\ Len(inputElementInfos) = 1
    /\ "registerOperation" \in rejected

(***************************************************************************)
(* C36.  The updating flag covers every rebuild in flight: in every        *)
(* reachable state, when at least one updateScreenHistory has started and  *)
(* has not yet terminated, screenHistoryIsUpdating is true, also when two  *)
(* rebuilds overlap and the first terminates while the second is running.  *)
(***************************************************************************)
C36_FlagCoversEveryRebuild == Running # {} => screenHistoryIsUpdating

(* ---------------------------------------------------------------------- *)
(* SpecFlags: resume and updateScreenHistory with the ways they throw.    *)
(* ResumeAction.resume rejects when the repository cannot deliver the     *)
(* test result; a build step of updateScreenHistory may throw.            *)
(* ---------------------------------------------------------------------- *)

\* The messages of the errors that reach the catch block of resume.
ErrorMessages == {"resume_failed", "repository_service_not_found"}

\* rootGetters.message(key): the text the key translates to.
Message(key) == "<" \o key \o ">"

\* A slip in the catch block: the error is rethrown as it came.
ResumeError_Untranslated(message) == message

\* The message of the Error the catch block of resume throws.
ResumeError(message) == Message("error.operation_history." \o message)

\* resume down to the await of ResumeAction.resume: the flag is raised and
\* the test result is requested.
ResumeRequested ==
    /\ updating = "none"
    /\ updating' = "resuming"
    /\ isResuming' = TRUE
    /\ UNCHANGED <<imageCompression, testResultInfo, history,
                   canUpdateModels, screenHistory, windowHandles,
                   screenHistoryIsUpdating, resultCount, beOps, noteImages,
                   registering, timers, rejected>>
    /\ UNCHANGED <<noteVars, genVars, buildVars, calls, access, selection,
                   clicked, urls, projects, inputElementInfos>>

\* ResumeAction.resume rejects, before the resumed data are delivered or
\* when resumeWindowHandles throws: the catch block throws the translated
\* Error and the finally block lowers the flag.
ResumeRejects(message) ==
    /\ updating \in {"resuming", "resumed"}
    /\ updating' = "none"
    /\ isResuming' = FALSE
    /\ Rejects(ResumeError(message))
    /\ UNCHANGED <<imageCompression, testResultInfo, history,
                   canUpdateModels, screenHistory, windowHandles,
                   screenHistoryIsUpdating, resultCount, beOps, noteImages,
                   registering, timers>>
    /\ UNCHANGED <<noteVars, genVars, buildVars, calls, access, selection,
                   clicked, urls, projects, inputElementInfos>>

\* The models a run has committed when its build step throws: none in
\* buildSequenceDiagramGraph, the sequence diagram in
\* buildScreenTransitionDiagramGraph, both diagrams in
\* buildElementCoverages.
ModelsBefore(stage) ==
    [ sequenceDiagramGraph |->
          IF stage = "sequence" THEN models.sequenceDiagramGraph
          ELSE <<SequenceDiagramGraph(screenHistory, windowHandles)>>,
      screenTransitionDiagramGraphs |->
          IF stage = "coverage"
          THEN CommitGraphs(models.screenTransitionDiagramGraphs,
                            screenHistory, Values(windowHandles), 1)
          ELSE models.screenTransitionDiagramGraphs,
      elementCoverages |-> models.elementCoverages ]

\* A build step of updateScreenHistory throws: the finally block lowers the
\* flag and the action rejects; a resume that dispatched the rebuild
\* catches the error, throws the translated Error and lowers its flag.
UpdateScreenHistoryThrows(stage, message) ==
    /\ updating \in {"resume", "view"}
    /\ models' = ModelsBefore(stage)
    /\ screenHistoryIsUpdating' = FALSE
    /\ updating' = "none"
    /\ IF updating = "resume"
       THEN /\ isResuming' = FALSE
            /\ Rejects(ResumeError(message))
       ELSE /\ UNCHANGED isResuming
            /\ Rejects("updateScreenHistory")
    /\ UNCHANGED <<imageCompression, testResultInfo, history,
                   canUpdateModels, screenHistory, windowHandles,
                   resultCount, beOps, noteImages, registering, timers>>
    /\ UNCHANGED <<noteVars, genVars, access, selection, clicked, urls, projects,
                   inputElementInfos, calls, coverageSources, builds>>

FlagsNext ==
    \/ \E screenDef \in ScreenDefs : RegisterOperation("w1", screenDef, FALSE)
    \/ RegisterOperationReply
    \/ ResumeRequested
    \/ \E message \in ErrorMessages : ResumeRejects(message)
    \/ Resume(NotesResult)
    \/ ResumeUpdatesScreenHistory
    \/ UpdateScreenHistory
    \/ UpdateScreenHistoryEnds
    \/ \E stage \in {"sequence", "transition", "coverage"},
          message \in ErrorMessages :
          UpdateScreenHistoryThrows(stage, message)

SpecFlags == InitCreated /\ [][FlagsNext]_vars

\* A resume terminates in this step.
ResumeTerminates ==
    /\ updating \in {"resuming", "resumed", "resume"}
    /\ updating' = "none"

(***************************************************************************)
(* C35.  Status flags are always released: whenever resume has terminated, *)
(* by returning or by throwing, isResuming is false; whenever a single     *)
(* updateScreenHistory has terminated, by returning or by throwing in any  *)
(* of its build steps, screenHistoryIsUpdating is false; and a failing     *)
(* resume throws an Error whose message is the translation of              *)
(* error.operation_history.<message>.                                      *)
(***************************************************************************)
C35_FlagsAreReleased ==
    /\ [](updating = "none" => ~isResuming /\ ~screenHistoryIsUpdating)
    /\ [][(ResumeTerminates /\ rejected' # rejected)
            => \E message \in ErrorMessages :
                   rejected' = rejected
                       \cup {Message("error.operation_history." \o message)}
         ]_vars

\* A resume has failed, a rebuild dispatched on its own has failed, and
\* both flags are down.
C35_Witness ==
    /\ \E message \in ErrorMessages :
          Message("error.operation_history." \o message) \in rejected
    /\ "updateScreenHistory" \in rejected
    /\ updating = "none"
    /\ ~isResuming
    /\ ~screenHistoryIsUpdating
    /\ history # <<>>

(* ---------------------------------------------------------------------- *)
(* SpecResume: resume among the registerOperation calls of the sessions.  *)
(* The resumed data are committed in one synchronous run of               *)
(* setResumedData; resume then awaits resumeWindowHandles and             *)
(* updateScreenHistory, and a registerOperation dispatched before may     *)
(* get its reply meanwhile.                                               *)
(* ---------------------------------------------------------------------- *)

ResumeNext ==
    \/ CreateTestResult
    \/ \E screenDef \in ScreenDefs : RegisterOperation("w1", screenDef, FALSE)
    \/ RegisterOperationReply
    \/ \E t \in TestResults : Resume(t)
    \/ ResumeUpdatesScreenHistory
    \/ UpdateScreenHistoryEnds

SpecResume == Init /\ [][ResumeNext]_vars

(***************************************************************************)
(* C37.  Resume replaces the session state wholesale and in order.  When   *)
(* the resumed data are delivered, the models and the input value table    *)
(* are cleared and coverage sources, input element infos, history and test *)
(* result info are those of the resumed data; the screen history is        *)
(* rebuilt from the new history; and when resume has terminated the        *)
(* history holds the resumed items and no entry of the previous session.   *)
(***************************************************************************)
C37_ResumeReplacesTheSession ==
    [][/\ (updating = "none" /\ updating' = "resumed")
          => /\ history' = ResumedHistory(testResultInfo')
             /\ models' = NoModels
             /\ selection'.inputValueTable = 0
             /\ coverageSources' =
                    CoverageSourcesOf(beOps[testResultInfo'],
                                      Len(beOps[testResultInfo']))
             /\ inputElementInfos' =
                    InputElementInfosOf(beOps[testResultInfo'],
                                        Len(beOps[testResultInfo']))
       /\ (updating = "resumed" /\ updating' = "resume")
          => screenHistory' = CreateFromOperationHistory(history)
       /\ (updating = "resume" /\ updating' = "none")
          => \A i \in DOMAIN history' :
                 history'[i].operation.testResult = testResultInfo'
      ]_vars

----------------------------------------------------------------------------
\* Repository methods and the status of the response (SpecAccess).

\* C38: repository methods are total and classify the status exactly.  A
\* settled request of a method of TestTargetRepository or ProjectRepository
\* can always return, and what it has returned is one of the three results:
\* success exactly when the request was answered with 204 for
\* deleteTestTarget and with 200 for every other method, the access failure
\* that carries the status of the response for any other status, and the
\* connection-refused failure when the client has thrown.
C38_RepositoryMethodsClassifyTheStatus ==
    access.method.repository \in {"TestTargetRepository", "ProjectRepository"}
        => LET expected ==
                   IF access.method.name = "deleteTestTarget" THEN 204
                   ELSE 200
               answered == access.response.transport = "answered"
           IN  /\ access.phase = "settled" => ENABLED RepositoryReturns
               /\ access.phase = "returned"
                    => /\ access.result.succeeded
                           <=> ( answered
                                 /\ access.response.status = expected )
                       /\ ( answered /\ access.response.status # expected )
                           => access.result
                                = RepositoryAccessFailure(access.response)
                       /\ ~answered
                           => access.result = ConnectionRefusedFailure

\* deleteTestTarget has been answered with 200 and has returned.
C38_Witness ==
    /\ access.phase = "returned"
    /\ access.method.name = "deleteTestTarget"
    /\ access.response.transport = "answered"
    /\ access.response.status = 200
    /\ ~access.result.succeeded

----------------------------------------------------------------------------
\* RepositoryServiceDispatcher.readProject (SpecProject).

MaxProjects == 3

\* The ids a project can have.  The id of a new project is the backend's
\* choice: POST /projects carries a name and no id.
ProjectIds == 1 .. MaxProjects

ProjectFrame ==
    UNCHANGED <<noteVars, genVars, storeVars, buildVars, calls, access,
                selection, clicked, urls, inputElementInfos, isResuming>>

ProjectCallRuns == projects.pc \in {"listing", "creating", "reading"}

\* ProjectRepository.postProject answered with 200: the backend holds one
\* more project.  The reply of an earlier readProject has been read.
PostProject ==
    /\ ~ProjectCallRuns
    /\ Cardinality(projects.backend) < MaxProjects
    /\ \E id \in ProjectIds \ projects.backend :
          projects' = [projects EXCEPT !.backend = @ \cup {id},
                                       !.pc = "idle"]
    /\ ProjectFrame

\* readProject(projectId) is called and sends GET /projects.
ReadProject(projectId) ==
    /\ ~ProjectCallRuns
    /\ Cardinality(projects.backend) < MaxProjects
    /\ projects' = [projects EXCEPT
           !.pc = "listing",
           !.projectId = projectId,
           !.targetProjectId = 0,
           !.reply = NoProjects.reply,
           !.before = projects.backend,
           !.again = projectId \in projects.read]
    /\ ProjectFrame

\* GET /projects is answered: the given id is the target when the list
\* includes it, else POST /projects is sent.
ReadProjectListed ==
    /\ projects.pc = "listing"
    /\ projects' =
           IF projects.projectId \in projects.backend
           THEN [projects EXCEPT !.pc = "reading",
                                 !.targetProjectId = projects.projectId]
           ELSE [projects EXCEPT !.pc = "creating"]
    /\ ProjectFrame

\* POST /projects is answered: the backend has created a project and its
\* id is the target.
ReadProjectCreated ==
    /\ projects.pc = "creating"
    /\ \E id \in ProjectIds \ projects.backend :
          projects' = [projects EXCEPT !.pc = "reading",
                                       !.backend = @ \cup {id},
                                       !.targetProjectId = id]
    /\ ProjectFrame

\* GET /projects/{targetProjectId} is answered: the call returns the
\* project as its data.
ReadProjectReturns ==
    /\ projects.pc = "reading"
    /\ projects' = [projects EXCEPT
           !.pc = "returned",
           !.reply = [succeeded |-> TRUE, data |-> projects.targetProjectId],
           !.read = @ \cup {projects.projectId}]
    /\ ProjectFrame

\* One of the three requests throws: the catch block returns the failure.
ReadProjectFails ==
    /\ ProjectCallRuns
    /\ projects' = [projects EXCEPT
           !.pc = "returned",
           !.reply = [succeeded |-> FALSE, data |-> 0]]
    /\ ProjectFrame

ProjectNext ==
    \/ PostProject
    \/ \E projectId \in ProjectIds : ReadProject(projectId)
    \/ ReadProjectListed
    \/ ReadProjectCreated
    \/ ReadProjectReturns
    \/ ReadProjectFails

SpecProject == Init /\ [][ProjectNext]_vars

\* C39: readProject never creates a project needlessly.  When a call has
\* returned: if a project with the given id existed when it started, the
\* backend holds the projects it held then and a successful reply carries
\* that project; if none existed and the call succeeded, the backend holds
\* exactly one project more and the reply carries it; and if a call with
\* the same id has succeeded before, the backend holds the projects it held
\* when this call started.
C39_ReadProjectCreatesNothingNeedlessly ==
    projects.pc = "returned" =>
        LET created == projects.backend \ projects.before
        IN  /\ projects.projectId \in projects.before
                => /\ created = {}
                   /\ projects.reply.succeeded
                        => projects.reply.data = projects.projectId
            /\ ( projects.projectId \notin projects.before
                 /\ projects.reply.succeeded )
                => /\ Cardinality(created) = 1
                   /\ projects.reply.data \in created
            /\ projects.again => created = {}

=============================================================================
